---- MODULE Spec2Model ----
(***************************************************************************)
(* A model of go/inst/instance_topology_dao.go of orchestrator: the        *)
(* bounded topology executor, the semi-sync policy engine and the          *)
(* replication-control operations on one instance.                         *)
(*                                                                         *)
(* The module holds several specifications over one set of variables; each *)
(* specification moves its own group of variables and leaves the others at *)
(* their idle values:                                                      *)
(*   SpecExec  tasks calling ExecuteOnTopology on the shared token channel *)
(*   SpecSemi  one evaluation of the semi-sync policy, applied, evaluated  *)
(*             again                                                       *)
(*   SpecClassify  the classification of the replicas read, on its own     *)
(*   SpecOps   one call of a replication-control operation on an instance  *)
(*   SpecWait  one polling wait, round by round, on a clock                *)
(*   SpecFanOut  StopReplicas, StartReplicas or RefreshTopologyInstances:  *)
(*             one goroutine per replica and the caller at the barrier     *)
(***************************************************************************)
EXTENDS Integers, Sequences, FiniteSets, TLC

VARIABLES
    \* ---- bounded topology executor (SpecExec)
    topologyConcurrencyChan,  \* the buffered channel of tokens, a sequence of TRUE
    tpc,                      \* task -> its position in ExecuteOnTopology
    panicked,                 \* task -> whether its f() panicked
    \* ---- semi-sync policy engine (SpecSemi)
    masterInstance,           \* the master's snapshot
    replicas,                 \* the replicas' snapshots, in the order read
    includeNonReplicatingInstance, \* the must-include key, or NoKey
    exactReplicaTopology,     \* the mode: exact (TRUE) or enough (FALSE)
    classified,               \* the three lists of the last classification
    actions,                  \* the action map last computed
    appliedActions,           \* the action map the caller applied
    semiPhase,                \* "idle", "read", "classified", "analyzed", "applied", "reanalyzed"
    \* ---- replication-control operations on one instance (SpecOps)
    server,                   \* the state of the MySQL server behind the instance key
    Noop,                     \* config.RuntimeCLIFlags.Noop
    Config,                   \* config.Config: the two semi-sync policy switches
    call,                     \* the operation called and its arguments, or NoCall
    answers,                  \* what the server and the collaborators answered so far
    world,                    \* the world the call has got to with these answers
    \* ---- one polling wait (SpecWait)
    waiter,                   \* the wait: its arguments, its locals, the clock, the replica polled
    \* ---- concurrent operations on a list of replicas (SpecFanOut)
    fanout                    \* the caller: the operation, its replicas, what the barrier delivered

execVars == <<topologyConcurrencyChan, tpc, panicked>>
semiVars == <<masterInstance, replicas, includeNonReplicatingInstance,
              exactReplicaTopology, classified, actions, appliedActions, semiPhase>>
opsVars == <<server, Noop, Config, call, answers, world>>
waitVars == <<waiter>>
fanVars == <<fanout>>
vars == <<execVars, semiVars, opsVars, waitVars, fanVars>>

\* The variables of a group a specification does not move stay at these values.
NoKey == [Hostname |-> <<>>, Port |-> 0]

SemiIdle ==
    /\ masterInstance = [SemiSyncMasterWaitForReplicaCount |-> 0, SemiSyncMasterClients |-> 0]
    /\ replicas = <<>>
    /\ includeNonReplicatingInstance = NoKey
    /\ exactReplicaTopology = FALSE
    /\ classified = <<>>
    /\ actions = <<>>
    /\ appliedActions = <<>>
    /\ semiPhase = "idle"

ExecIdle ==
    /\ topologyConcurrencyChan = <<>>
    /\ tpc = <<>>
    /\ panicked = <<>>

NoCall == [op |-> "none"]

OpsIdle ==
    /\ server = <<>>
    /\ Noop = FALSE
    /\ Config = <<>>
    /\ call = NoCall
    /\ answers = <<>>
    /\ world = <<>>

WaitIdle == waiter = <<>>

FanIdle == fanout = <<>>

(***************************************************************************)
(* Bounded topology executor                                               *)
(***************************************************************************)

\* The capacity of topologyConcurrencyChan. The source sets 128 (line 36);
\* the model runs the same channel with a small capacity.
topologyConcurrency == 2

\* How many tasks call ExecuteOnTopology at once: more than the pool holds.
NumTasks == topologyConcurrency + 2

Tasks == 1..NumTasks

\* make(chan bool, topologyConcurrency): an empty buffered channel
NewChan == <<>>

\* A send on the buffered channel proceeds only while the buffer has room.
SendReadyUnbounded(ch) == TRUE

SendReady(ch) == Len(ch) < topologyConcurrency

\* topologyConcurrencyChan <- true
Send(ch) == Append(ch, TRUE)

\* A release that is not deferred: skipped when f() panics.
ReleaseUnlessPanicked(ch, didPanic) == IF didPanic THEN ch ELSE Tail(ch)

\* defer func() { recover(); <-topologyConcurrencyChan }(): runs when f
\* returns and when f panics; recover() ends the panic, the receive takes
\* one token out.
DeferredRelease(ch, didPanic) == Tail(ch)

\* A deferred function without recover(): a panic of f goes on to the
\* caller of ExecuteOnTopology.
RecoveredNothing(didPanic) == ~didPanic

\* line 74, recover(): called by the deferred function itself, it ends the
\* panic of f, if there was one; ExecuteOnTopology returns normally.
Recovered(didPanic) == TRUE

\* The functions that are executing: they hold a token they acquired and
\* have not released.
InFlight == {t \in Tasks : tpc[t] \in {"f", "defer"}}

ExecInit ==
    /\ topologyConcurrencyChan = NewChan
    /\ tpc = [t \in Tasks |-> "start"]
    /\ panicked = [t \in Tasks |-> FALSE]
    /\ SemiIdle
    /\ OpsIdle
    /\ WaitIdle
    /\ FanIdle

\* line 73: blocks while the channel is full
Acquire(t) ==
    /\ tpc[t] = "start"
    /\ SendReady(topologyConcurrencyChan)
    /\ topologyConcurrencyChan' = Send(topologyConcurrencyChan)
    /\ tpc' = [tpc EXCEPT ![t] = "f"]
    /\ UNCHANGED <<panicked, semiVars, opsVars, waitVars, fanVars>>

\* line 75: f() returns
FReturns(t) ==
    /\ tpc[t] = "f"
    /\ tpc' = [tpc EXCEPT ![t] = "defer"]
    /\ UNCHANGED <<topologyConcurrencyChan, panicked, semiVars, opsVars, waitVars, fanVars>>

\* line 75: f() panics
FPanics(t) ==
    /\ tpc[t] = "f"
    /\ tpc' = [tpc EXCEPT ![t] = "defer"]
    /\ panicked' = [panicked EXCEPT ![t] = TRUE]
    /\ UNCHANGED <<topologyConcurrencyChan, semiVars, opsVars, waitVars, fanVars>>

\* line 74: the deferred function; ExecuteOnTopology then returns normally
Release(t) ==
    /\ tpc[t] = "defer"
    /\ Len(topologyConcurrencyChan) > 0
    /\ topologyConcurrencyChan' = DeferredRelease(topologyConcurrencyChan, panicked[t])
    /\ tpc' = [tpc EXCEPT ![t] = IF Recovered(panicked[t]) THEN "done" ELSE "panicking"]
    /\ UNCHANGED <<panicked, semiVars, opsVars, waitVars, fanVars>>

ExecNext ==
    \/ \E t \in Tasks : Acquire(t)
    \/ \E t \in Tasks : FReturns(t)
    \/ \E t \in Tasks : FPanics(t)
    \/ \E t \in Tasks : Release(t)

SpecExec == ExecInit /\ [][ExecNext]_vars

\* C1: with more tasks than tokens (NumTasks > topologyConcurrency), at most
\* topologyConcurrency of the supplied functions are executing in any
\* reachable state.
C1_AtMostPoolSizeRunning ==
    /\ NumTasks > topologyConcurrency
    /\ Cardinality(InFlight) <= topologyConcurrency

\* C1 witness: the pool is full of executing functions while another task
\* waits to be admitted.
C1_Witness ==
    /\ Cardinality(InFlight) = topologyConcurrency
    /\ \E t \in Tasks : tpc[t] = "start"

\* C2: no token leaks: the tokens in the channel are exactly those of the
\* calls in flight, so a call that completed, whether f returned or
\* panicked, has put the available-token count back where it was before it
\* acquired; once every call has completed the channel is empty again.
C2_NoTokenLeak ==
    /\ Len(topologyConcurrencyChan) = Cardinality(InFlight)
    /\ (\A t \in Tasks : tpc[t] \in {"start", "done"})
           => topologyConcurrencyChan = NewChan

\* C2 witness: a call whose f panicked has completed, and with every other
\* task not in flight the channel is back to empty.
C2_Witness ==
    /\ \E t \in Tasks : tpc[t] = "done" /\ panicked[t]
    /\ InFlight = {}
    /\ topologyConcurrencyChan = NewChan

(***************************************************************************)
(* Semi-sync policy engine                                                 *)
(***************************************************************************)

\* How many replicas the master has at most.
MaxReplicas == 3

\* The largest wait-for-replica-count and connected-client count drawn.
MaxCount == 2

\* Go's uint is UintBits wide (64 in the build; the model keeps the wrap at
\* a width that is still far above every count it handles).
UintBits == 16

UintMod == 2 ^ UintBits

\* a - b on uint: wraps around instead of going negative
UintSub(a, b) == (a - b) % UintMod

UintAdd(a, b) == (a + b) % UintMod

\* Characters are their byte values.
Colon == 58

Digit(d) == 48 + d

RECURSIVE Itoa(_)
\* %d of a non-negative number: its decimal digits
Itoa(n) == IF n < 10 THEN <<Digit(n)>> ELSE Itoa(n \div 10) \o <<Digit(n % 10)>>

\* InstanceKey.String(): "hostname:port"
KeyString(key) == key.Hostname \o <<Colon>> \o Itoa(key.Port)

RECURSIVE StringsCompare(_, _)
\* strings.Compare: -1, 0 or 1 by the bytes, a proper prefix being smaller
StringsCompare(a, b) ==
    IF a = <<>> /\ b = <<>> THEN 0
    ELSE IF a = <<>> THEN -1
    ELSE IF b = <<>> THEN 1
    ELSE IF Head(a) < Head(b) THEN -1
    ELSE IF Head(a) > Head(b) THEN 1
    ELSE StringsCompare(Tail(a), Tail(b))

\* InstanceKey.Equals
KeyEquals(a, b) == a.Hostname = b.Hostname /\ a.Port = b.Port

\* CandidatePromotionRule: the position of each rule in the promotion order
PromotionRuleOrder(rule) ==
    CASE rule = "must" -> 0
      [] rule = "prefer" -> 1
      [] rule = "neutral" -> 2
      [] rule = "prefer_not" -> 3
      [] rule = "must_not" -> 4

\* CandidatePromotionRule.BetterThan
BetterThan(a, b) == PromotionRuleOrder(a) < PromotionRuleOrder(b)

MustNotPromoteRule == "must_not"

\* The less function without its last tie-break on the key strings.
SemiSyncLessWithoutKey(a, b) ==
    IF a.SemiSyncPriority # b.SemiSyncPriority
    THEN a.SemiSyncPriority > b.SemiSyncPriority
    ELSE BetterThan(a.PromotionRule, b.PromotionRule)

\* lines 697-705: the less function given to sort.Slice
SemiSyncLess(a, b) ==
    IF a.SemiSyncPriority # b.SemiSyncPriority
    THEN a.SemiSyncPriority > b.SemiSyncPriority
    ELSE IF a.PromotionRule # b.PromotionRule
    THEN BetterThan(a.PromotionRule, b.PromotionRule)
    ELSE StringsCompare(KeyString(a.Key), KeyString(b.Key)) < 0

RECURSIVE InsertSorted(_, _, _)
\* pointer r put into the sorted list of pointers by SemiSyncLess
InsertSorted(rs, list, r) ==
    IF list = <<>> THEN <<r>>
    ELSE IF SemiSyncLess(rs[r], rs[Head(list)]) THEN <<r>> \o list
    ELSE <<Head(list)>> \o InsertSorted(rs, Tail(list), r)

RECURSIVE SortSlice(_, _)
\* sort.Slice by SemiSyncLess. The lists hold *Instance pointers: here the
\* positions of the replicas in the list that was read.
SortSlice(rs, list) ==
    IF list = <<>> THEN <<>>
    ELSE InsertSorted(rs, SortSlice(rs, Tail(list)), Head(list))

\* The three lists before any replica is classified (lines 682-684).
NothingClassified ==
    [possibleSemiSyncReplicas |-> <<>>, asyncReplicas |-> <<>>, excludedReplicas |-> <<>>]

\* A replica counted as replicating only when its threads run.
isReplicatingRunningOnly(replica, include) == replica.ReplicaRunning

\* line 686
isReplicating(replica, include) ==
    KeyEquals(replica.Key, include) \/ replica.ReplicaRunning

RECURSIVE ClassifyLoop(_, _, _, _)
\* lines 685-694: the classification loop from position i on
ClassifyLoop(rs, include, i, acc) ==
    IF i > Len(rs) THEN acc
    ELSE LET replica == rs[i]
         IN  IF ~replica.IsLastCheckValid \/ ~isReplicating(replica, include)
             THEN ClassifyLoop(rs, include, i + 1,
                      [acc EXCEPT !.excludedReplicas = Append(@, i)])
             ELSE IF replica.SemiSyncPriority = 0
             THEN ClassifyLoop(rs, include, i + 1,
                      [acc EXCEPT !.asyncReplicas = Append(@, i)])
             ELSE ClassifyLoop(rs, include, i + 1,
                      [acc EXCEPT !.possibleSemiSyncReplicas = Append(@, i)])

\* lines 680-708
classifyAndPrioritizeReplicas(rs, include) ==
    LET c == ClassifyLoop(rs, include, 1, NothingClassified)
    IN  [c EXCEPT !.possibleSemiSyncReplicas = SortSlice(rs, @)]

\* actions[replica] = enable on the map: a function from pointers to BOOLEAN
MapSet(m, k, v) == [x \in (DOMAIN m) \cup {k} |-> IF x = k THEN v ELSE m[x]]

EmptyMap == <<>>

\* The exact-topology loop with the comparison to the current flag left
\* out: an action for every candidate.
ExactCandidateActionAlways(master, rs, i, r, acts) ==
    MapSet(acts, r, (i - 1) < master.SemiSyncMasterWaitForReplicaCount)

\* The exact-topology loop enabling one candidate more than the count.
ExactCandidateActionOneMore(master, rs, i, r, acts) ==
    LET isSemiSyncEnabled == rs[r].SemiSyncReplicaEnabled
        shouldSemiSyncBeEnabled == (i - 1) <= master.SemiSyncMasterWaitForReplicaCount
    IN  IF shouldSemiSyncBeEnabled /\ ~isSemiSyncEnabled THEN MapSet(acts, r, TRUE)
        ELSE IF ~shouldSemiSyncBeEnabled /\ isSemiSyncEnabled THEN MapSet(acts, r, FALSE)
        ELSE acts

\* lines 724-730: the body of the loop over the candidates; i counts from 1,
\* Go's index is i - 1
ExactCandidateAction(master, rs, i, r, acts) ==
    LET isSemiSyncEnabled == rs[r].SemiSyncReplicaEnabled
        shouldSemiSyncBeEnabled == (i - 1) < master.SemiSyncMasterWaitForReplicaCount
    IN  IF shouldSemiSyncBeEnabled /\ ~isSemiSyncEnabled THEN MapSet(acts, r, TRUE)
        ELSE IF ~shouldSemiSyncBeEnabled /\ isSemiSyncEnabled THEN MapSet(acts, r, FALSE)
        ELSE acts

RECURSIVE ExactCandidatesLoop(_, _, _, _, _)
ExactCandidatesLoop(master, rs, possible, i, acts) ==
    IF i > Len(possible) THEN acts
    ELSE ExactCandidatesLoop(master, rs, possible, i + 1,
             ExactCandidateAction(master, rs, i, possible[i], acts))

RECURSIVE ExactAsyncLoop(_, _, _, _)
\* lines 732-736
ExactAsyncLoop(rs, async, i, acts) ==
    IF i > Len(async) THEN acts
    ELSE ExactAsyncLoop(rs, async, i + 1,
             IF rs[async[i]].SemiSyncReplicaEnabled
             THEN MapSet(acts, async[i], FALSE) ELSE acts)

\* lines 721-738
determineSemiSyncReplicaActionsForExactTopology(master, rs, possible, async) ==
    ExactAsyncLoop(rs, async, 1,
        ExactCandidatesLoop(master, rs, possible, 1, EmptyMap))

\* The break test of the enough-topology loop, stopping one replica late.
EnoughReachedLate(master, enabled) ==
    enabled = UintAdd(UintSub(master.SemiSyncMasterWaitForReplicaCount,
                              master.SemiSyncMasterClients), 1)

\* line 750: the break test; the subtraction is on uint
EnoughReached(master, enabled) ==
    enabled = UintSub(master.SemiSyncMasterWaitForReplicaCount,
                      master.SemiSyncMasterClients)

RECURSIVE EnoughLoop(_, _, _, _, _, _)
\* lines 745-753
EnoughLoop(master, rs, possible, i, enabled, acts) ==
    IF i > Len(possible) THEN acts
    ELSE LET replica == possible[i]
             off == ~rs[replica].SemiSyncReplicaEnabled
             acts2 == IF off THEN MapSet(acts, replica, TRUE) ELSE acts
             enabled2 == IF off THEN UintAdd(enabled, 1) ELSE enabled
         IN  IF EnoughReached(master, enabled2) THEN acts2
             ELSE EnoughLoop(master, rs, possible, i + 1, enabled2, acts2)

\* lines 742-755
determineSemiSyncReplicaActionsForEnoughTopology(master, rs, possible) ==
    EnoughLoop(master, rs, possible, 1, 0, EmptyMap)

\* lines 712-717
determineSemiSyncReplicaActions(master, rs, possible, async, exact) ==
    IF exact
    THEN determineSemiSyncReplicaActionsForExactTopology(master, rs, possible, async)
    ELSE determineSemiSyncReplicaActionsForEnoughTopology(master, rs, possible)

\* The key of the i-th replica read; the strings order as
\* "a:10" < "a:11" < "b:12" < "b:9".
ReplicaKey(i) == [Hostname |-> <<IF i % 3 = 1 THEN 98 ELSE 97>>, Port |-> 8 + i]

\* The snapshots a replica is drawn from: candidates of two priorities and
\* three rules, always-async replicas, and replicas that are down.
ReplicaProfiles ==
    [SemiSyncPriority : {1, 2}, PromotionRule : {"neutral"},
     SemiSyncReplicaEnabled : BOOLEAN, IsLastCheckValid : {TRUE}, ReplicaRunning : {TRUE}]
    \cup
    [SemiSyncPriority : {2}, PromotionRule : {"prefer", MustNotPromoteRule},
     SemiSyncReplicaEnabled : {FALSE}, IsLastCheckValid : {TRUE}, ReplicaRunning : {TRUE}]
    \cup
    [SemiSyncPriority : {0}, PromotionRule : {"neutral"},
     SemiSyncReplicaEnabled : BOOLEAN, IsLastCheckValid : {TRUE}, ReplicaRunning : {TRUE}]
    \cup
    {[SemiSyncPriority |-> 1, PromotionRule |-> "neutral",
      SemiSyncReplicaEnabled |-> TRUE, IsLastCheckValid |-> FALSE, ReplicaRunning |-> TRUE],
     [SemiSyncPriority |-> 1, PromotionRule |-> "neutral",
      SemiSyncReplicaEnabled |-> FALSE, IsLastCheckValid |-> TRUE, ReplicaRunning |-> FALSE]}

WithKey(profile, i) ==
    [Key |-> ReplicaKey(i),
     SemiSyncPriority |-> profile.SemiSyncPriority,
     PromotionRule |-> profile.PromotionRule,
     SemiSyncReplicaEnabled |-> profile.SemiSyncReplicaEnabled,
     IsLastCheckValid |-> profile.IsLastCheckValid,
     ReplicaRunning |-> profile.ReplicaRunning]

SemiInit ==
    /\ masterInstance \in [SemiSyncMasterWaitForReplicaCount : 0..MaxCount,
                           SemiSyncMasterClients : 0..MaxCount]
    /\ \E n \in 0..MaxReplicas : \E ps \in [1..n -> ReplicaProfiles] :
           replicas = [i \in 1..n |-> WithKey(ps[i], i)]
    /\ includeNonReplicatingInstance \in {NoKey, ReplicaKey(1)}
    /\ exactReplicaTopology \in BOOLEAN
    /\ classified = NothingClassified
    /\ actions = EmptyMap
    /\ appliedActions = EmptyMap
    /\ semiPhase = "read"
    /\ ExecIdle
    /\ OpsIdle
    /\ WaitIdle
    /\ FanIdle

\* lines 671-672, on the snapshots read
Analyze ==
    /\ semiPhase = "read"
    /\ classified' = classifyAndPrioritizeReplicas(replicas, includeNonReplicatingInstance)
    /\ actions' = determineSemiSyncReplicaActions(masterInstance, replicas,
                       classified'.possibleSemiSyncReplicas, classified'.asyncReplicas,
                       exactReplicaTopology)
    /\ semiPhase' = "analyzed"
    /\ UNCHANGED <<masterInstance, replicas, includeNonReplicatingInstance,
                   exactReplicaTopology, appliedActions, execVars, opsVars, waitVars, fanVars>>

\* The number of enable actions of an action map.
NewlyEnabled(acts) == Cardinality({r \in DOMAIN acts : acts[r]})

\* The caller applies every action: each replica's ack flag takes the value
\* of its action and, in enough-topology mode, the replicas newly enabled
\* connect to the master as semi-sync clients.
ApplyActions ==
    /\ semiPhase = "analyzed"
    /\ replicas' = [i \in DOMAIN replicas |->
                       IF i \in DOMAIN actions
                       THEN [replicas[i] EXCEPT !.SemiSyncReplicaEnabled = actions[i]]
                       ELSE replicas[i]]
    /\ masterInstance' =
           IF exactReplicaTopology THEN masterInstance
           ELSE [masterInstance EXCEPT !.SemiSyncMasterClients =
                                           UintAdd(@, NewlyEnabled(actions))]
    /\ appliedActions' = actions
    /\ semiPhase' = "applied"
    /\ UNCHANGED <<includeNonReplicatingInstance, exactReplicaTopology, classified,
                   actions, execVars, opsVars, waitVars, fanVars>>

\* lines 671-672 again, on the state the actions left
Reanalyze ==
    /\ semiPhase = "applied"
    /\ classified' = classifyAndPrioritizeReplicas(replicas, includeNonReplicatingInstance)
    /\ actions' = determineSemiSyncReplicaActions(masterInstance, replicas,
                       classified'.possibleSemiSyncReplicas, classified'.asyncReplicas,
                       exactReplicaTopology)
    /\ semiPhase' = "reanalyzed"
    /\ UNCHANGED <<masterInstance, replicas, includeNonReplicatingInstance,
                   exactReplicaTopology, appliedActions, execVars, opsVars, waitVars, fanVars>>

SemiNext == Analyze \/ ApplyActions \/ Reanalyze

SpecSemi == SemiInit /\ [][SemiNext]_vars

\* The candidates of the last analysis, in priority order.
Candidates == classified.possibleSemiSyncReplicas

SeqRange(list) == {list[i] : i \in DOMAIN list}

\* C8: in exact-topology mode the action map is exactly
\* { r -> desired(r) : current(r) # desired(r) }, desired being true for the
\* first N candidates (N the master's wait-for-replica-count) and false for
\* the later candidates and the always-async replicas; a replica whose flag
\* already has the desired value, and an excluded replica, has no entry.
C8_ExactTopologyActions ==
    (semiPhase = "analyzed" /\ exactReplicaTopology) =>
        LET N == masterInstance.SemiSyncMasterWaitForReplicaCount
            desired(r) == \E i \in DOMAIN Candidates : Candidates[i] = r /\ i <= N
            subject == SeqRange(Candidates) \cup SeqRange(classified.asyncReplicas)
            differing == {r \in subject : replicas[r].SemiSyncReplicaEnabled # desired(r)}
        IN  /\ DOMAIN actions = differing
            /\ \A r \in differing : actions[r] = desired(r)
            /\ \A r \in SeqRange(classified.excludedReplicas) : r \notin DOMAIN actions

\* C8 witness: the exact analysis enables one candidate, disables a later
\* one, disables an always-async replica and leaves a candidate alone.
C8_Witness ==
    /\ semiPhase = "analyzed" /\ exactReplicaTopology
    /\ \E r \in SeqRange(Candidates) : r \in DOMAIN actions /\ actions[r]
    /\ \E r \in SeqRange(Candidates) : r \in DOMAIN actions /\ ~actions[r]
    /\ \E r \in SeqRange(Candidates) : r \notin DOMAIN actions

\* C9: the decision is idempotent: once every returned action is applied
\* (and, in enough-topology mode, the newly enabled replicas are counted as
\* connected clients), the next analysis returns an empty action map.
C9_Idempotent == semiPhase = "reanalyzed" => actions = EmptyMap

\* C9 witness: an analysis in enough-topology mode returned actions, they
\* were applied, and the analysis ran again.
C9_Witness ==
    /\ semiPhase = "reanalyzed"
    /\ ~exactReplicaTopology
    /\ appliedActions # EmptyMap

\* C10: in enough-topology mode no action disables; and with fewer connected
\* clients than the wait-for-count the entries are exactly the first
\* (wait-for-count - clients) candidates, in priority order, whose flag is
\* off (all of them if there are fewer).
C10_EnoughTopologyActions ==
    (semiPhase = "analyzed" /\ ~exactReplicaTopology) =>
        LET wait == masterInstance.SemiSyncMasterWaitForReplicaCount
            clients == masterInstance.SemiSyncMasterClients
            off == {i \in DOMAIN Candidates : ~replicas[Candidates[i]].SemiSyncReplicaEnabled}
            firstOff == {i \in off : Cardinality({j \in off : j < i}) < wait - clients}
        IN  /\ \A r \in DOMAIN actions : actions[r] = TRUE
            /\ clients < wait => DOMAIN actions = {Candidates[i] : i \in firstOff}

\* C10 witness: one more client is needed, the first candidate already acks
\* and two later candidates do not: only the first of those two is enabled.
C10_Witness ==
    /\ semiPhase = "analyzed" /\ ~exactReplicaTopology
    /\ masterInstance.SemiSyncMasterClients + 1 = masterInstance.SemiSyncMasterWaitForReplicaCount
    /\ Len(Candidates) = 3
    /\ replicas[Candidates[1]].SemiSyncReplicaEnabled
    /\ ~replicas[Candidates[2]].SemiSyncReplicaEnabled
    /\ ~replicas[Candidates[3]].SemiSyncReplicaEnabled
    /\ DOMAIN actions = {Candidates[2]}

\* C11: in enough-topology mode, with at least as many connected semi-sync
\* clients as the master's wait-for-count, the action map is empty.
C11_NoActionsWhenEnoughClients ==
    (semiPhase = "analyzed" /\ ~exactReplicaTopology
     /\ masterInstance.SemiSyncMasterClients >= masterInstance.SemiSyncMasterWaitForReplicaCount)
        => actions = EmptyMap

\* C12: the three lists partition the replicas read; a replica with an
\* invalid last check is excluded; a replica with a valid last check whose
\* key is the must-include key is not excluded; a replica that is not
\* excluded is always-async iff its priority is 0, and a candidate otherwise.
C12_ClassificationPartitions ==
    semiPhase = "analyzed" =>
        LET excluded == SeqRange(classified.excludedReplicas)
            async == SeqRange(classified.asyncReplicas)
            possible == SeqRange(Candidates)
        IN  /\ excluded \cup async \cup possible = DOMAIN replicas
            /\ Len(classified.excludedReplicas) + Len(classified.asyncReplicas)
                   + Len(Candidates) = Len(replicas)
            /\ \A r \in DOMAIN replicas :
                   /\ ~replicas[r].IsLastCheckValid => r \in excluded
                   /\ (replicas[r].IsLastCheckValid
                       /\ KeyEquals(replicas[r].Key, includeNonReplicatingInstance))
                          => r \notin excluded
                   /\ r \notin excluded =>
                          /\ r \in async <=> replicas[r].SemiSyncPriority = 0
                          /\ r \in possible <=> replicas[r].SemiSyncPriority # 0

\* C12 witness: the must-include replica is not replicating and is a
\* candidate all the same, next to a replica excluded for its invalid check
\* and an always-async one.
C12_Witness ==
    /\ semiPhase = "analyzed"
    /\ Len(replicas) = 3
    /\ KeyEquals(replicas[1].Key, includeNonReplicatingInstance)
    /\ ~replicas[1].ReplicaRunning
    /\ 1 \in SeqRange(Candidates)
    /\ \E r \in SeqRange(classified.excludedReplicas) : ~replicas[r].IsLastCheckValid
    /\ classified.asyncReplicas # <<>>

\* The classification alone, on any list of replicas read: the master and
\* the mode play no part in it.
ClassifyInit ==
    /\ masterInstance = [SemiSyncMasterWaitForReplicaCount |-> 1, SemiSyncMasterClients |-> 0]
    /\ \E n \in 0..MaxReplicas : \E ps \in [1..n -> ReplicaProfiles] :
           replicas = [i \in 1..n |-> WithKey(ps[i], i)]
    /\ includeNonReplicatingInstance \in {NoKey, ReplicaKey(1)}
    /\ exactReplicaTopology = FALSE
    /\ classified = NothingClassified
    /\ actions = EmptyMap
    /\ appliedActions = EmptyMap
    /\ semiPhase = "read"
    /\ ExecIdle
    /\ OpsIdle
    /\ WaitIdle
    /\ FanIdle

\* line 671
Classify ==
    /\ semiPhase = "read"
    /\ classified' = classifyAndPrioritizeReplicas(replicas, includeNonReplicatingInstance)
    /\ semiPhase' = "classified"
    /\ UNCHANGED <<masterInstance, replicas, includeNonReplicatingInstance,
                   exactReplicaTopology, actions, appliedActions, execVars, opsVars, waitVars, fanVars>>

SpecClassify == ClassifyInit /\ [][Classify]_vars

\* The order the candidates are to be in: higher priority first, then the
\* better promotion rule, then the smaller host:port string.
ComesBefore(a, b) ==
    \/ a.SemiSyncPriority > b.SemiSyncPriority
    \/ /\ a.SemiSyncPriority = b.SemiSyncPriority
       /\ BetterThan(a.PromotionRule, b.PromotionRule)
    \/ /\ a.SemiSyncPriority = b.SemiSyncPriority
       /\ a.PromotionRule = b.PromotionRule
       /\ StringsCompare(KeyString(a.Key), KeyString(b.Key)) < 0

\* The keys of the candidates, in the order of the list.
CandidateKeys(rs, possible) == [i \in DOMAIN possible |-> rs[possible[i]].Key]

\* C13: the candidates are ordered by descending priority, then the better
\* promotion rule first, then the ascending host:port string; and, the keys
\* being distinct, every permutation of the list read gives the same order.
C13_CandidatesOrdered ==
    semiPhase = "classified" =>
        /\ \A i, j \in DOMAIN Candidates :
               i < j => ComesBefore(replicas[Candidates[i]], replicas[Candidates[j]])
        /\ \A p \in Permutations(DOMAIN replicas) :
               LET rs == [i \in DOMAIN replicas |-> replicas[p[i]]]
               IN  CandidateKeys(rs, classifyAndPrioritizeReplicas(rs,
                           includeNonReplicatingInstance).possibleSemiSyncReplicas)
                   = CandidateKeys(replicas, Candidates)

\* C13 witness: three candidates read in an order that is none of the three
\* criteria's: the priority, the rule and the key string each move one.
C13_Witness ==
    /\ semiPhase = "classified"
    /\ Len(replicas) = 3
    /\ Candidates = <<3, 2, 1>>
    /\ replicas[3].PromotionRule = "prefer"
    /\ replicas[2].PromotionRule = "neutral" /\ replicas[2].SemiSyncPriority = 2
    /\ replicas[1].PromotionRule = "neutral" /\ replicas[1].SemiSyncPriority = 2

\* C14: a replica whose promotion rule is 'must not promote' is never among
\* the candidates and never gets an enable action, in either mode.
C14_MustNotPromoteNeverEligible ==
    semiPhase = "analyzed" =>
        \A r \in DOMAIN replicas :
            replicas[r].PromotionRule = MustNotPromoteRule =>
                /\ r \notin SeqRange(Candidates)
                /\ ~(r \in DOMAIN actions /\ actions[r])

(***************************************************************************)
(* Replication-control operations on one instance                          *)
(*                                                                         *)
(* An operation is a function of a world: the server's state, the flags,   *)
(* and the answers the server and the collaborators give, in the order the *)
(* operation asks for them. The world it returns holds the statements and  *)
(* sink writes of the call in order, the snapshot and the error returned.  *)
(* A call is followed one answer at a time: it has returned once every     *)
(* interaction it attempts has an answer.                                  *)
(***************************************************************************)

\* How many interactions of one call are followed.
MaxAnswers == 14

\* A nil error. Errors are their text, as a sequence of phrases.
NoError == <<>>

Error1201CouldnotInitializeMasterInfoStructure == "Error 1201:"

Error1201 == <<Error1201CouldnotInitializeMasterInfoStructure,
               "Could not initialize master info structure">>

Error1199 == <<"Error 1199: Slave connection is not running">>

ErrOther == <<"Error 1064:", "other failure">>

\* strings.Contains(err.Error(), phrase)
Contains(err, phrase) == \E i \in DOMAIN err : err[i] = phrase

\* What ReadTopologyInstance hands back with an error: nil, or a snapshot it
\* could not complete.
NilInstance == [IsNil |-> TRUE]

PartialInstance == [IsNil |-> FALSE, Partial |-> TRUE]

ReadFailedNil == <<"ReadTopologyInstance failed", "nil">>

ReadFailedPartial == <<"ReadTopologyInstance failed", "partial">>

NoInteraction == [kind |-> "none", stmt |-> ""]

Answer(err, val) == [err |-> err, val |-> val]

\* The statements whose error text the operations look into get the error
\* the text is matched against besides another one; where only err != nil is
\* tested, one error stands for all.
ExecErrors(stmt) ==
    IF stmt = "stop_slave"
    THEN {Error1199, Error1199 \o <<"(while stopping the SQL thread)">>, ErrOther}
    ELSE IF stmt \in {"change_master_to_master_host_port",
                      "change_master_to_master_host_port_log_gtid_no",
                      "change_master_to_master_use_gtid_current_pos",
                      "change_master_to_master_use_gtid_slave_pos",
                      "change_master_to_master_host_port_log_autoposition_no",
                      "change_master_to_master_host_port_autoposition_yes",
                      "change_master_to_master_host_port_log",
                      "reset_slave_50603_all"}
    THEN {Error1201, ErrOther}
    ELSE {ErrOther}

InstanceKeyA == [Hostname |-> <<97>>, Port |-> 10]

OldMasterKey == [Hostname |-> <<109>>, Port |-> 6]

NewMasterKey == [Hostname |-> <<110>>, Port |-> 7]

\* UnresolveHostname maps a hostname back to the name it was resolved from.
UnresolvedKey(key) == [key EXCEPT !.Hostname = @ \o <<45, 117>>]

\* BinlogCoordinates; LogFile is the number of the binary log file.
ExecutedCoordinates == [LogFile |-> 1, LogPos |-> 4]

TargetCoordinates == [LogFile |-> 1, LogPos |-> 8]

PastCoordinates == [LogFile |-> 2, LogPos |-> 4]

\* BinlogCoordinates.SmallerThan
SmallerThan(a, b) ==
    \/ a.LogFile < b.LogFile
    \/ a.LogFile = b.LogFile /\ a.LogPos < b.LogPos

\* Another replica of the same master, of a higher priority than the instance.
HigherPriorityReplica ==
    [Key |-> ReplicaKey(1), SemiSyncPriority |-> 2, PromotionRule |-> "neutral",
     SemiSyncReplicaEnabled |-> FALSE, IsLastCheckValid |-> TRUE, ReplicaRunning |-> TRUE]

IOThreadFailsToConnect == <<"the IO thread fails to connect">>

\* The answers an interaction can get.
Outcomes(pending) ==
    CASE pending.kind = "ReadTopologyInstance" ->
             {Answer(e, <<>>) : e \in {NoError, ReadFailedNil, ReadFailedPartial}}
      \* START SLAVE succeeds before the IO thread has connected to the master
      [] pending.kind = "ExecInstance" ->
             {Answer(e, <<>>) : e \in {NoError} \cup ExecErrors(pending.stmt)}
             \cup (IF pending.stmt = "start_slave"
                   THEN {Answer(NoError, IOThreadFailsToConnect)} ELSE {})
      \* (unresolvedKey, nameUnresolved, err): val is nameUnresolved
      [] pending.kind = "UnresolveHostname" ->
             {Answer(ErrOther, FALSE), Answer(NoError, FALSE), Answer(NoError, TRUE)}
      [] pending.kind = "ReadTopologyInstance (replicating)" ->
             {Answer(e, <<>>) : e \in {ReadFailedNil, ReadFailedPartial}}
             \cup {Answer(NoError, c) : c \in {ExecutedCoordinates, TargetCoordinates,
                                                PastCoordinates}}
      [] pending.kind = "ReadTopologyInstance (master)" ->
             {Answer(ErrOther, <<>>)}
             \cup {Answer(NoError, m) : m \in [SemiSyncMasterWaitForReplicaCount : {1},
                                                SemiSyncMasterClients : {0, 1}]}
      [] pending.kind \in {"ReadTopologyInstances", "ReadReplicaInstances"} ->
             {Answer(ErrOther, <<>>)}
             \cup {Answer(NoError, l) : l \in [self : BOOLEAN,
                                                others : {<<>>, <<HigherPriorityReplica>>}]}
      [] pending.kind = "expectReplicationThreadsState" ->
             {Answer(NoError, v) : v \in {"met", "unmet", "late"}}
      [] pending.kind = "time.Since(startTime) > maxWait" ->
             {Answer(NoError, v) : v \in BOOLEAN}
      [] pending.kind = "OpenTopology" ->
             {Answer(e, <<>>) : e \in {NoError, ErrOther}}
      \* val is resultData: no row, or one row of up to five columns
      [] pending.kind = "QueryResultData" ->
             {Answer(ErrOther, <<>>)}
             \cup {Answer(NoError, resultData) :
                      resultData \in {<<>>, << <<>> >>, << <<"">> >>, << <<"", "secret">> >>,
                                      << <<"repl">> >>,
                                      << <<"repl", "secret", "ca.pem", "cert.pem", "key.pem">> >>}}
      \* val is (user, password) of mysql.slave_master_info
      [] pending.kind = "ScanInstanceRow" ->
             {Answer(ErrOther, <<>>), Answer(NoError, <<"", "">>),
              Answer(NoError, <<"slave", "hidden">>)}
      [] pending.kind = "EmptyCommitInstance" ->
             {Answer(e, <<>>) : e \in {NoError, ErrOther}}
      \* the seconds a sleep and the read after it take
      [] pending.kind = "time.Sleep(retryInterval)" ->
             {Answer(NoError, seconds) : seconds \in {1, 2}}
      \* both timers have fired: the channel select receives from
      [] pending.kind = "select" ->
             {Answer(NoError, c) : c \in {"generalTimer.C", "staleTimer.C"}}

\* The answer an operation goes on with past the answers given so far.
NoAnswer == Answer(ErrOther, <<>>)

NewWorld(s, noop, config, given) ==
    [server |-> s, Noop |-> noop, Config |-> config, answers |-> given, n |-> 0,
     pending |-> NoInteraction, log |-> <<>>, ans |-> NoAnswer,
     instance |-> NilInstance, err |-> NoError, panic |-> FALSE,
     exactMatch |-> FALSE, analysis |-> <<>>, now |-> 0]

\* One interaction: the next answer, or none yet.
Ask(w, kind, stmt) ==
    IF w.pending = NoInteraction /\ w.n < Len(w.answers)
    THEN [w EXCEPT !.n = @ + 1, !.ans = w.answers[w.n + 1]]
    ELSE [w EXCEPT !.n = @ + 1, !.ans = NoAnswer,
                   !.pending = IF @ = NoInteraction
                               THEN [kind |-> kind, stmt |-> stmt] ELSE @]

\* What the call did is recorded as long as its interactions were answered.
Log(w, event) ==
    IF w.pending = NoInteraction THEN [w EXCEPT !.log = Append(@, event)] ELSE w

\* ReplicationThreadState
ReplicationThreadStateNoThread == "NoThread"

ReplicationThreadStateStopped == "Stopped"

ReplicationThreadStateRunning == "Running"

\* The snapshot ReadTopologyInstance derives from the server's state.
Snapshot(s) ==
    [f \in DOMAIN s \cup {"IsNil", "ReplicationIOThreadRuning", "ReplicationSQLThreadRuning"} |->
        CASE f = "IsNil" -> FALSE
          [] f = "ReplicationIOThreadRuning" ->
                 s.ReplicationIOThreadState = ReplicationThreadStateRunning
          [] f = "ReplicationSQLThreadRuning" ->
                 s.ReplicationSQLThreadState = ReplicationThreadStateRunning
          [] OTHER -> s[f]]

\* Instance.IsReplica: the instance has a master configured
IsReplica(instance) == instance.MasterKey # NoKey

\* Instance.ReplicationThreadsExist
ReplicationThreadsExist(instance) ==
    /\ instance.ReplicationIOThreadState # ReplicationThreadStateNoThread
    /\ instance.ReplicationSQLThreadState # ReplicationThreadStateNoThread

\* Instance.ReplicationThreadsStopped
ReplicationThreadsStopped(instance) ==
    /\ instance.ReplicationIOThreadState = ReplicationThreadStateStopped
    /\ instance.ReplicationSQLThreadState = ReplicationThreadStateStopped

\* Instance.ReplicaRunning
ReplicaRunning(instance) ==
    /\ IsReplica(instance)
    /\ instance.ReplicationIOThreadState = ReplicationThreadStateRunning
    /\ instance.ReplicationSQLThreadState = ReplicationThreadStateRunning

\* Instance.IsMariaDB
IsMariaDB(instance) == instance.IsMariaDB

\* Instance.isMaxScale
isMaxScale(instance) == instance.IsMaxScale

ChangeMasterStatements ==
    {"change_master_to_master_host_port",
     "change_master_to_master_host_port_log_gtid_no",
     "change_master_to_master_use_gtid_current_pos",
     "change_master_to_master_use_gtid_slave_pos",
     "change_master_to_master_host_port_log_autoposition_no",
     "change_master_to_master_host_port_autoposition_yes",
     "change_master_to_master_host_port_log"}

\* What a statement that succeeded does to the server.
Effect(s, stmt, args) ==
    LET configured == s.MasterKey # NoKey
        hasIO == s.ReplicationIOThreadState # ReplicationThreadStateNoThread
        hasSQL == s.ReplicationSQLThreadState # ReplicationThreadStateNoThread
    IN
    CASE stmt = "stop_slave" ->
             [s EXCEPT !.ReplicationIOThreadState =
                           IF hasIO THEN ReplicationThreadStateStopped ELSE @,
                       !.ReplicationSQLThreadState =
                           IF hasSQL THEN ReplicationThreadStateStopped ELSE @]
      [] stmt \in {"start_slave", "start_slave_until_master_log"} ->
             [s EXCEPT !.ReplicationIOThreadState =
                           IF configured THEN ReplicationThreadStateRunning ELSE @,
                       !.ReplicationSQLThreadState =
                           IF configured THEN ReplicationThreadStateRunning ELSE @]
      [] stmt = "stop_slave_io_thread" ->
             [s EXCEPT !.ReplicationIOThreadState =
                           IF hasIO THEN ReplicationThreadStateStopped ELSE @]
      [] stmt = "start_slave_io_thread" ->
             [s EXCEPT !.ReplicationIOThreadState =
                           IF configured THEN ReplicationThreadStateRunning ELSE @,
                       !.ReplicationSQLThreadState =
                           IF configured /\ ~hasSQL THEN ReplicationThreadStateStopped ELSE @]
      [] stmt = "start_slave_sql_thread" ->
             [s EXCEPT !.ReplicationSQLThreadState =
                           IF configured THEN ReplicationThreadStateRunning ELSE @,
                       !.ReplicationIOThreadState =
                           IF configured /\ ~hasIO THEN ReplicationThreadStateStopped ELSE @]
      [] stmt = "reset_slave_50603_all" ->
             [s EXCEPT !.MasterKey = NoKey,
                       !.ReplicationIOThreadState = ReplicationThreadStateNoThread,
                       !.ReplicationSQLThreadState = ReplicationThreadStateNoThread]
      [] stmt \in ChangeMasterStatements ->
             [s EXCEPT !.MasterKey = [Hostname |-> args[1], Port |-> args[2]],
                       !.ReplicationIOThreadState =
                           IF hasIO THEN @ ELSE ReplicationThreadStateStopped,
                       !.ReplicationSQLThreadState =
                           IF hasSQL THEN @ ELSE ReplicationThreadStateStopped,
                       !.UsingMariaDBGTID =
                           IF stmt \in {"change_master_to_master_use_gtid_current_pos",
                                        "change_master_to_master_use_gtid_slave_pos"}
                           THEN TRUE
                           ELSE IF stmt = "change_master_to_master_host_port_log_gtid_no"
                           THEN FALSE ELSE @,
                       !.UsingOracleGTID =
                           IF stmt = "change_master_to_master_host_port_autoposition_yes"
                           THEN TRUE
                           ELSE IF stmt = "change_master_to_master_host_port_log_autoposition_no"
                           THEN FALSE ELSE @]
      [] stmt = "set_rpl_semi_sync_master_enabled" ->
             [s EXCEPT !.SemiSyncMasterEnabled = args[1]]
      [] stmt = "set_rpl_semi_sync_slave_enabled" ->
             [s EXCEPT !.SemiSyncReplicaEnabled = args[1]]
      [] OTHER -> s

\* ReadTopologyInstance(instanceKey)
ReadTopologyInstance(w) ==
    LET a == Ask(w, "ReadTopologyInstance", "") IN
    IF a.ans.err = NoError
    THEN [a EXCEPT !.instance = Snapshot(a.server), !.err = NoError]
    ELSE [a EXCEPT !.instance = IF a.ans.err = ReadFailedNil
                                 THEN NilInstance ELSE PartialInstance,
                   !.err = a.ans.err]

\* The server some time after a statement: an IO thread that was started
\* and could not connect has stopped again.
Settled(s, val) ==
    IF val = IOThreadFailsToConnect
    THEN [s EXCEPT !.ReplicationIOThreadState =
                       IF @ = ReplicationThreadStateRunning
                       THEN ReplicationThreadStateStopped ELSE @]
    ELSE s

\* ExecInstance(instanceKey, query, args...): the statement reaches the
\* server and the server answers
ExecInstance(w, stmt, args) ==
    LET a == Ask(w, "ExecInstance", stmt) IN
    Log([a EXCEPT !.err = a.ans.err,
                  !.server = IF a.ans.err = NoError
                             THEN Settled(Effect(@, stmt, args), a.ans.val) ELSE @],
        [ev |-> "exec", stmt |-> stmt, args |-> args, err |-> a.ans.err])

\* A write to a bookkeeping sink of the backend: WriteMasterPositionEquivalence,
\* ResetInstanceRelaylogCoordinatesHistory, AuditOperation.
WriteSink(w, sink, args) ==
    Log(w, [ev |-> "sink", stmt |-> sink, args |-> args, err |-> NoError])

\* OperationGTIDHint
GTIDHintDeny == "NoGTID"

GTIDHintNeutral == "GTIDHintNeutral"

GTIDHintForce == "GTIDHintForce"

ErrNotAReplica == <<"instance is not a replica">>

ErrThreadsNotStopped == <<"replication threads are not stopped">>

ErrNoop == <<"noop: aborting operation; signalling error but nothing went wrong.">>

ErrNilDereference == <<"panic: nil pointer dereference">>

\* return instance, err: the snapshot held and the error
Return(w, instance, err) == [w EXCEPT !.instance = instance, !.err = err]

\* A statement issued ahead of the replica check.
ReturnNotAReplicaAfterStop(w) ==
    Return(ExecInstance(w, "stop_slave", <<>>), w.instance, ErrNotAReplica)

\* return instance, fmt.Errorf("instance is not a replica: ...")
ReturnNotAReplica(w) == Return(w, w.instance, ErrNotAReplica)

\* instance.ReplicationThreadsExist() && !instance.ReplicationThreadsStopped()
ThreadsNotStopped(instance) ==
    ReplicationThreadsExist(instance) /\ ~ReplicationThreadsStopped(instance)

\* The stop-both statement treated as gone through by a mere mention of
\* Error 1199 in the text.
StopErrorContaining(instance, err) ==
    IF err # NoError /\ isMaxScale(instance) /\ Contains(err, Error1199[1])
    THEN NoError ELSE err

\* lines 411-416 and 301-306: the error of the stop statement after the
\* MaxScale patch
StopError(instance, err) ==
    IF err # NoError /\ isMaxScale(instance) /\ err = Error1199 THEN NoError ELSE err

\* StopReplication(instanceKey)
StopReplication(w) ==
    LET Reread(rr) ==
            \* line 422 reads fields of the instance before the error is looked at
            IF rr.instance = NilInstance
            THEN [rr EXCEPT !.panic = TRUE, !.err = ErrNilDereference]
            ELSE rr
        Stopped(instance, e) ==
            IF StopError(instance, e.err) # NoError
            THEN Return(e, instance, StopError(instance, e.err))
            ELSE Reread(ReadTopologyInstance(e))
        Read(r) ==
            IF r.err # NoError THEN r
            ELSE IF ~IsReplica(r.instance) THEN ReturnNotAReplica(r)
            ELSE Stopped(r.instance, ExecInstance(r, "stop_slave", <<>>))
    IN Read(ReadTopologyInstance(w))

\* workaroundBug83713: four statements, their errors only logged
workaroundBug83713(w) ==
    ExecInstance(
        ExecInstance(
            ExecInstance(
                ExecInstance(w, "reset_slave", <<>>),
                "start_slave_io_thread", <<>>),
            "stop_slave_io_thread", <<>>),
        "reset_slave", <<>>)

\* The GTID reference of a MariaDB instance turned to GTID, whatever threads
\* it has.
mariadbGTIDHintSlavePos(instance) == "slave_pos"

\* lines 994-1002
mariadbGTIDHint(instance) ==
    IF ~ReplicationThreadsExist(instance) THEN "current_pos" ELSE "slave_pos"

\* The statement chosen with Oracle GTID kept whatever the hint.
ChangeMasterStatementKeepingOracleGTID(instance, gtidHint) ==
    IF instance.UsingMariaDBGTID /\ gtidHint # GTIDHintDeny
    THEN "change_master_to_master_host_port"
    ELSE IF instance.UsingMariaDBGTID /\ gtidHint = GTIDHintDeny
    THEN "change_master_to_master_host_port_log_gtid_no"
    ELSE IF IsMariaDB(instance) /\ gtidHint = GTIDHintForce
    THEN IF mariadbGTIDHint(instance) = "current_pos"
         THEN "change_master_to_master_use_gtid_current_pos"
         ELSE "change_master_to_master_use_gtid_slave_pos"
    ELSE IF instance.UsingOracleGTID
    THEN "change_master_to_master_host_port"
    ELSE IF instance.SupportsOracleGTID /\ gtidHint = GTIDHintForce
    THEN "change_master_to_master_host_port_autoposition_yes"
    ELSE "change_master_to_master_host_port_log"

\* lines 976-1039: the statement changeMasterFunc executes
ChangeMasterStatement(instance, gtidHint) ==
    IF instance.UsingMariaDBGTID /\ gtidHint # GTIDHintDeny
    THEN "change_master_to_master_host_port"
    ELSE IF instance.UsingMariaDBGTID /\ gtidHint = GTIDHintDeny
    THEN "change_master_to_master_host_port_log_gtid_no"
    ELSE IF IsMariaDB(instance) /\ gtidHint = GTIDHintForce
    THEN IF mariadbGTIDHint(instance) = "current_pos"
         THEN "change_master_to_master_use_gtid_current_pos"
         ELSE "change_master_to_master_use_gtid_slave_pos"
    ELSE IF instance.UsingOracleGTID /\ gtidHint # GTIDHintDeny
    THEN "change_master_to_master_host_port"
    ELSE IF instance.UsingOracleGTID /\ gtidHint = GTIDHintDeny
    THEN "change_master_to_master_host_port_log_autoposition_no"
    ELSE IF instance.SupportsOracleGTID /\ gtidHint = GTIDHintForce
    THEN "change_master_to_master_host_port_autoposition_yes"
    ELSE "change_master_to_master_host_port_log"

\* The arguments the statement is executed with.
ChangeMasterArgs(stmt, changeToMasterKey, masterBinlogCoordinates) ==
    IF stmt \in {"change_master_to_master_host_port_log_gtid_no",
                 "change_master_to_master_host_port_log_autoposition_no",
                 "change_master_to_master_host_port_log"}
    THEN <<changeToMasterKey.Hostname, changeToMasterKey.Port,
           masterBinlogCoordinates.LogFile, masterBinlogCoordinates.LogPos>>
    ELSE <<changeToMasterKey.Hostname, changeToMasterKey.Port>>

\* A retry after whatever error.
RetryAfterAnyError(instance, err) == err # NoError

\* line 1041
RetryAfterError(instance, err) ==
    /\ err # NoError
    /\ instance.UsingOracleGTID
    /\ Contains(err, Error1201CouldnotInitializeMasterInfoStructure)

\* A statement never taken to have failed.
StatementFailedNever(err) == FALSE

\* line 1046
StatementFailed(err) == err # NoError

\* lines 1049-1050
ChangeMasterToBookkeeping(w, originalMasterKey, originalExecBinlogCoordinates, changeToMasterKey, masterBinlogCoordinates) ==
    WriteSink(WriteSink(w, "WriteMasterPositionEquivalence",
                        <<originalMasterKey, originalExecBinlogCoordinates,
                          changeToMasterKey, masterBinlogCoordinates>>),
              "ResetInstanceRelaylogCoordinatesHistory", <<w.server.Key>>)

\* ChangeMasterTo(instanceKey, masterKey, masterBinlogCoordinates,
\*                skipUnresolve, gtidHint)
ChangeMasterTo(w, masterKey, masterBinlogCoordinates, skipUnresolve, gtidHint) ==
    LET Executed(instance, changeToMasterKey, last) ==
            IF StatementFailed(last.err) THEN Return(last, instance, last.err)
            ELSE ReadTopologyInstance(
                     ChangeMasterToBookkeeping(last, instance.MasterKey,
                         instance.ExecBinlogCoordinates, changeToMasterKey,
                         masterBinlogCoordinates))
        \* lines 1040-1045
        Tried(instance, changeToMasterKey, stmt, args, first) ==
            IF RetryAfterError(instance, first.err)
            THEN Executed(instance, changeToMasterKey,
                          ExecInstance(workaroundBug83713(first), stmt, args))
            ELSE Executed(instance, changeToMasterKey, first)
        Change(u, instance, changeToMasterKey, stmt) ==
            Tried(instance, changeToMasterKey, stmt,
                  ChangeMasterArgs(stmt, changeToMasterKey, masterBinlogCoordinates),
                  ExecInstance(u, stmt,
                      ChangeMasterArgs(stmt, changeToMasterKey, masterBinlogCoordinates)))
        Unresolved(u, instance, err, changeToMasterKey) ==
            IF err # NoError THEN Return(u, instance, err)
            ELSE IF u.Noop THEN Return(u, instance, ErrNoop)
            ELSE Change(u, instance, changeToMasterKey,
                        ChangeMasterStatement(instance, gtidHint))
        Asked(u, instance) ==
            Unresolved(u, instance, u.ans.err,
                       IF u.ans.err = NoError /\ u.ans.val
                       THEN UnresolvedKey(masterKey) ELSE masterKey)
        Read(r) ==
            IF r.err # NoError THEN r
            ELSE IF ThreadsNotStopped(r.instance)
            THEN Return(r, r.instance, ErrThreadsNotStopped)
            ELSE IF skipUnresolve THEN Unresolved(r, r.instance, NoError, masterKey)
            ELSE Asked(Ask(r, "UnresolveHostname", ""), r.instance)
    IN Read(ReadTopologyInstance(w))

\* SetSemiSyncMaster(instanceKey, enableMaster)
SetSemiSyncMaster(w, enableMaster) ==
    LET Set(instance, e) ==
            IF e.err # NoError THEN Return(e, instance, e.err)
            ELSE ReadTopologyInstance(e)
        Read(r) ==
            IF r.err # NoError THEN r
            ELSE Set(r.instance,
                     ExecInstance(r, "set_rpl_semi_sync_master_enabled", <<enableMaster>>))
    IN Read(ReadTopologyInstance(w))

\* SetSemiSyncReplica bouncing the IO thread whether or not it was running.
SetSemiSyncReplicaBouncingAlways(w, enableReplica) ==
    LET Bounced(instance, b) ==
            IF b.err # NoError THEN Return(b, instance, b.err)
            ELSE ReadTopologyInstance(b)
        Set(instance, e) ==
            IF e.err # NoError THEN Return(e, instance, e.err)
            ELSE Bounced(instance,
                         ExecInstance(ExecInstance(e, "stop_slave_io_thread", <<>>),
                                      "start_slave_io_thread", <<>>))
        Read(r) ==
            IF r.err # NoError THEN r
            ELSE IF r.instance.SemiSyncReplicaEnabled = enableReplica THEN r
            ELSE Set(r.instance,
                     ExecInstance(r, "set_rpl_semi_sync_slave_enabled", <<enableReplica>>))
    IN Read(ReadTopologyInstance(w))

\* SetSemiSyncReplica(instanceKey, enableReplica)
SetSemiSyncReplica(w, enableReplica) ==
    LET Bounced(instance, b) ==
            IF b.err # NoError THEN Return(b, instance, b.err)
            ELSE ReadTopologyInstance(b)
        Set(instance, e) ==
            IF e.err # NoError THEN Return(e, instance, e.err)
            ELSE IF instance.ReplicationIOThreadRuning
            THEN \* the error of the stop is dropped, the error of the start returned
                 Bounced(instance,
                         ExecInstance(ExecInstance(e, "stop_slave_io_thread", <<>>),
                                      "start_slave_io_thread", <<>>))
            ELSE ReadTopologyInstance(e)
        Read(r) ==
            IF r.err # NoError THEN r
            ELSE IF r.instance.SemiSyncReplicaEnabled = enableReplica THEN r
            ELSE Set(r.instance,
                     ExecInstance(r, "set_rpl_semi_sync_slave_enabled", <<enableReplica>>))
    IN Read(ReadTopologyInstance(w))

\* line 236: SetSemiSyncReplica is entered
SettingSemiSyncReplica(w, enableReplica) ==
    Log(w, [ev |-> "call", stmt |-> "SetSemiSyncReplica", args |-> <<enableReplica>>,
            err |-> NoError])

\* MaybeDisableSemiSyncMaster(replicaInstance)
MaybeDisableSemiSyncMaster(w, replicaInstance) ==
    IF replicaInstance.SemiSyncPriority > 0 /\ replicaInstance.SemiSyncMasterEnabled
    THEN SetSemiSyncMaster(w, FALSE)
    ELSE Return(w, replicaInstance, NoError)

\* The legacy policy enabling the ack flag whatever the promotion rule.
maybeEnableSemiSyncReplicaLegacyAnyRule(w, replicaInstance) ==
    IF replicaInstance.SemiSyncPriority > 0
    THEN SetSemiSyncReplica(w, TRUE)
    ELSE Return(w, replicaInstance, NoError)

\* maybeEnableSemiSyncReplicaLegacy(replicaInstance)
maybeEnableSemiSyncReplicaLegacy(w, replicaInstance) ==
    IF replicaInstance.SemiSyncPriority > 0
    THEN SetSemiSyncReplica(w, replicaInstance.PromotionRule # MustNotPromoteRule)
    ELSE Return(w, replicaInstance, NoError)

\* The instance as the reads of the master's replicas return it.
AsReplica(s) ==
    [Key |-> s.Key, SemiSyncPriority |-> s.SemiSyncPriority,
     PromotionRule |-> s.PromotionRule,
     SemiSyncReplicaEnabled |-> s.SemiSyncReplicaEnabled,
     IsLastCheckValid |-> TRUE, ReplicaRunning |-> ReplicaRunning(s)]

\* The replicas a read of the master's replicas answered.
ReplicasRead(w, val) ==
    val.others \o (IF val.self THEN <<AsReplica(w.server)>> ELSE <<>>)

\* lines 671-675
Analysis(master, rs, c, exact) ==
    [masterInstance |-> master, replicas |-> rs,
     actions |-> determineSemiSyncReplicaActions(master, rs,
                     c.possibleSemiSyncReplicas, c.asyncReplicas, exact)]

\* AnalyzeSemiSyncReplicaTopology giving up when the live read of the
\* replicas fails.
AnalyzeSemiSyncReplicaTopologyLiveOnly(w, includeKey, exact) ==
    LET Classified(l, master, rs) ==
            [l EXCEPT !.err = NoError,
                      !.analysis = Analysis(master, rs,
                                       classifyAndPrioritizeReplicas(rs, includeKey), exact)]
        Listed(l, master) ==
            IF l.ans.err # NoError THEN [l EXCEPT !.err = l.ans.err]
            ELSE Classified(l, master, ReplicasRead(l, l.ans.val))
        Live(l, master) == Listed(l, master)
        Master(m) ==
            IF m.ans.err # NoError THEN [m EXCEPT !.err = m.ans.err]
            ELSE Live(Ask(m, "ReadTopologyInstances", ""), m.ans.val)
    IN Master(Ask(w, "ReadTopologyInstance (master)", ""))

\* AnalyzeSemiSyncReplicaTopology(masterKey, includeNonReplicatingInstance,
\*                                exactReplicaTopology)
AnalyzeSemiSyncReplicaTopology(w, includeKey, exact) ==
    LET Classified(l, master, rs) ==
            [l EXCEPT !.err = NoError,
                      !.analysis = Analysis(master, rs,
                                       classifyAndPrioritizeReplicas(rs, includeKey), exact)]
        Listed(l, master) ==
            IF l.ans.err # NoError THEN [l EXCEPT !.err = l.ans.err]
            ELSE Classified(l, master, ReplicasRead(l, l.ans.val))
        \* the backend's list, when the live read of the replicas failed
        Live(l, master) ==
            IF l.ans.err # NoError
            THEN Listed(Ask(l, "ReadReplicaInstances", ""), master)
            ELSE Listed(l, master)
        Master(m) ==
            IF m.ans.err # NoError THEN [m EXCEPT !.err = m.ans.err]
            ELSE Live(Ask(m, "ReadTopologyInstances", ""), m.ans.val)
    IN Master(Ask(w, "ReadTopologyInstance (master)", ""))

ErrSemiSync == <<"semi-sync:", "cannot read the topology">>

ErrCannotEnableSemiSync == <<"cannot enable semi sync on replica">>

\* line 628: the replica and the value SetSemiSyncReplica is called with
ApplyingAction(w, key, enable) ==
    Log(w, [ev |-> "apply", stmt |-> "SetSemiSyncReplica", args |-> <<key, enable>>,
            err |-> NoError])

\* MaybeEnableSemiSyncReplica applying an action of the map whichever replica
\* it is for.
MaybeEnableSemiSyncReplicaOfAnyReplica(w, replicaInstance) ==
    LET Set(s) ==
            IF s.err # NoError THEN Return(s, NilInstance, ErrCannotEnableSemiSync)
            ELSE Return(s, replicaInstance, NoError)
        \* line 628: SetSemiSyncReplica(&replica.Key, enable)
        Apply(a, key, enable) ==
            Set(SetSemiSyncReplica(ApplyingAction(a, key, enable), enable))
        \* lines 626-634: the entry of the map with the instance's key
        Mine(a, acts, mine) ==
            IF mine = {} THEN Return(a, replicaInstance, NoError)
            ELSE Apply(a, a.analysis.replicas[CHOOSE i \in mine : TRUE].Key,
                       acts[CHOOSE i \in mine : TRUE])
        Analyzed(a) ==
            IF a.err # NoError THEN Return(a, replicaInstance, ErrSemiSync)
            ELSE Mine(a, a.analysis.actions,
                      {i \in DOMAIN a.analysis.actions :
                           TRUE})
    IN
    IF ~w.Config.EnforceExactSemiSyncReplicas /\ ~w.Config.RecoverLockedSemiSyncMaster
    THEN maybeEnableSemiSyncReplicaLegacy(w, replicaInstance)
    ELSE Analyzed(AnalyzeSemiSyncReplicaTopology(w, replicaInstance.Key,
                      w.Config.EnforceExactSemiSyncReplicas))

\* MaybeEnableSemiSyncReplica(replicaInstance)
MaybeEnableSemiSyncReplica(w, replicaInstance) ==
    LET Set(s) ==
            IF s.err # NoError THEN Return(s, NilInstance, ErrCannotEnableSemiSync)
            ELSE Return(s, replicaInstance, NoError)
        \* line 628: SetSemiSyncReplica(&replica.Key, enable)
        Apply(a, key, enable) ==
            Set(SetSemiSyncReplica(ApplyingAction(a, key, enable), enable))
        \* lines 626-634: the entry of the map with the instance's key
        Mine(a, acts, mine) ==
            IF mine = {} THEN Return(a, replicaInstance, NoError)
            ELSE Apply(a, a.analysis.replicas[CHOOSE i \in mine : TRUE].Key,
                       acts[CHOOSE i \in mine : TRUE])
        Analyzed(a) ==
            IF a.err # NoError THEN Return(a, replicaInstance, ErrSemiSync)
            ELSE Mine(a, a.analysis.actions,
                      {i \in DOMAIN a.analysis.actions :
                           KeyEquals(a.analysis.replicas[i].Key, replicaInstance.Key)})
    IN
    IF ~w.Config.EnforceExactSemiSyncReplicas /\ ~w.Config.RecoverLockedSemiSyncMaster
    THEN maybeEnableSemiSyncReplicaLegacy(w, replicaInstance)
    ELSE Analyzed(AnalyzeSemiSyncReplicaTopology(w, replicaInstance.Key,
                      w.Config.EnforceExactSemiSyncReplicas))

\* waitForReplicationState: how long it waits for the threads, and the first
\* of its sleeps (the source waits a second, in sleeps from 10ms on)
waitDuration == 4

waitInterval == 1

RECURSIVE WaitLoop(_, _, _)
\* lines 434-445, from the poll on: elapsed is the time slept so far, p the
\* poll's answer
WaitLoop(p, elapsed, interval) ==
    IF p.pending # NoInteraction THEN p
    ELSE IF p.ans.val = "met" THEN p
    ELSE IF p.ans.val = "late" \/ elapsed + interval > waitDuration THEN p
    ELSE WaitLoop(Ask(p, "expectReplicationThreadsState", ""),
                  elapsed + interval, 2 * interval)

\* waitForReplicationState(instance, instanceKey, expectedState)
waitForReplicationState(w) ==
    WaitLoop(Ask(w, "expectReplicationThreadsState", ""), 0, waitInterval)

ReplicationNotRunningError == <<"instance is not replicating">>

\* The snapshot re-read returned as it is, running or not.
RunningOrNot(f) == f

\* lines 487-490
RunningOrError(f) ==
    IF ~ReplicaRunning(f.instance)
    THEN Return(f, f.instance, ReplicationNotRunningError)
    ELSE f

\* StartReplication with the replica-side ack flag set only after START
\* SLAVE.
StartReplicationStartingFirst(w) ==
    LET Reread(f) ==
            IF f.err # NoError THEN f ELSE RunningOrError(f)
        Enabled(s) ==
            IF s.err # NoError THEN s
            ELSE Reread(ReadTopologyInstance(waitForReplicationState(s)))
        Started(instance, e) ==
            IF e.err # NoError THEN Return(e, instance, e.err)
            ELSE Enabled(MaybeEnableSemiSyncReplica(e, instance))
        Disabled(d) ==
            IF d.err # NoError THEN d
            ELSE Started(d.instance, ExecInstance(d, "start_slave", <<>>))
        Read(r) ==
            IF r.err # NoError THEN r
            ELSE IF ~IsReplica(r.instance) THEN ReturnNotAReplica(r)
            ELSE Disabled(MaybeDisableSemiSyncMaster(r, r.instance))
    IN Read(ReadTopologyInstance(w))

\* StartReplication(instanceKey)
StartReplication(w) ==
    LET Reread(f) ==
            IF f.err # NoError THEN f ELSE RunningOrError(f)
        Started(instance, e) ==
            IF e.err # NoError THEN Return(e, instance, e.err)
            ELSE Reread(ReadTopologyInstance(waitForReplicationState(e)))
        Enabled(s) ==
            IF s.err # NoError THEN s
            ELSE Started(s.instance, ExecInstance(s, "start_slave", <<>>))
        Disabled(d) ==
            IF d.err # NoError THEN d
            ELSE Enabled(MaybeEnableSemiSyncReplica(d, d.instance))
        Read(r) ==
            IF r.err # NoError THEN r
            ELSE IF ~IsReplica(r.instance) THEN ReturnNotAReplica(r)
            ELSE Disabled(MaybeDisableSemiSyncMaster(r, r.instance))
    IN Read(ReadTopologyInstance(w))

\* RestartReplication(instanceKey)
RestartReplication(w) ==
    LET Stopped(s) == IF s.err # NoError THEN s ELSE StartReplication(s)
    IN Stopped(StopReplication(w))

ErrReachedMaxWait == <<"WaitForExecBinlogCoordinatesToReach: reached maxWait">>

\* Where the SQL thread has got to by the time of a read: coordinates at or
\* after the last ones, while the thread runs.
Advanced(s, coordinates) ==
    [s EXCEPT !.ExecBinlogCoordinates =
         IF s.ReplicationSQLThreadState = ReplicationThreadStateRunning
            /\ SmallerThan(@, coordinates)
         THEN coordinates ELSE @]

\* A read of the instance while it replicates.
ReadTopologyInstanceReplicating(w) ==
    LET Answered(a) ==
            IF a.ans.err # NoError
            THEN Return(a, IF a.ans.err = ReadFailedNil THEN NilInstance
                           ELSE PartialInstance, a.ans.err)
            ELSE [a EXCEPT !.server = Advanced(@, a.ans.val),
                           !.instance = Snapshot(Advanced(a.server, a.ans.val)),
                           !.err = NoError]
    IN Answered(Ask(w, "ReadTopologyInstance (replicating)", ""))

RECURSIVE WaitForExecBinlogCoordinatesToReach(_, _, _)
\* WaitForExecBinlogCoordinatesToReach(instanceKey, coordinates, maxWait):
\* one round of the loop and the rounds after it
WaitForExecBinlogCoordinatesToReach(w, coordinates, maxWait) ==
    LET Polled(r) ==
            IF SmallerThan(r.instance.ExecBinlogCoordinates, coordinates)
            THEN WaitForExecBinlogCoordinatesToReach(r, coordinates, maxWait)
            ELSE IF r.instance.ExecBinlogCoordinates = coordinates
            THEN [r EXCEPT !.exactMatch = TRUE]
            ELSE r
        Read(r) ==
            IF r.pending # NoInteraction \/ r.err # NoError THEN r
            ELSE Polled(Log(r, [ev |-> "poll", stmt |-> "ReadTopologyInstance",
                                args |-> <<r.now, r.instance.ExecBinlogCoordinates,
                                           r.instance.ExecBinlogCoordinates = coordinates>>,
                                err |-> NoError]))
        Timed(t) ==
            IF t.pending # NoInteraction THEN t
            ELSE IF t.ans.val THEN Return(t, NilInstance, ErrReachedMaxWait)
            ELSE Read(ReadTopologyInstanceReplicating(t))
    IN
    IF maxWait # 0
    THEN Timed(Ask(w, "time.Since(startTime) > maxWait", ""))
    ELSE Read(ReadTopologyInstanceReplicating(w))

\* time.Duration(config.Config.ReasonableReplicationLagSeconds) * time.Second,
\* the staleness period, in seconds
ReasonableReplicationLagSeconds == 2

\* line 321: 24 * time.Hour, in seconds
DefaultOverallTimeout == 86400

ErrWaitTimeout == <<"WaitForSQLThreadUpToDate timeout">>

ErrWaitStaleCoordinates == <<"WaitForSQLThreadUpToDate stale coordinates timeout">>

\* Instance.SQLThreadUpToDate: the SQL thread has applied all the IO thread
\* has read
SQLThreadUpToDate(instance) ==
    instance.ReadBinlogCoordinates = instance.ExecBinlogCoordinates

\* The stale timer never set again once created.
StaleDeadlineKept(now, coordinates, last, deadline, staleCoordinatesTimeout) == deadline

\* lines 344-351: when the stale timer fires. Coordinates other than the
\* last ones stop the timer, take what it may have sent from its channel,
\* and set it again from now.
StaleDeadline(now, coordinates, last, deadline, staleCoordinatesTimeout) ==
    IF coordinates # last THEN now + staleCoordinatesTimeout ELSE deadline

RECURSIVE WaitForSQLThreadUpToDateLoop(_, _, _, _, _)
\* lines 328-363: one round of the loop and the rounds after it. Time is in
\* seconds since the timers were created; it passes in the sleeps.
WaitForSQLThreadUpToDateLoop(w, last, staleDeadline, overallTimeout, staleCoordinatesTimeout) ==
    LET Slept(s, coordinates, deadline) ==
            IF s.pending # NoInteraction THEN s
            ELSE WaitForSQLThreadUpToDateLoop([s EXCEPT !.now = @ + s.ans.val],
                     coordinates, deadline, overallTimeout, staleCoordinatesTimeout)
        \* select takes any of the channels that are ready
        Chosen(c) ==
            IF c.pending # NoInteraction THEN c
            ELSE Return(c, c.instance, IF c.ans.val = "generalTimer.C"
                                       THEN ErrWaitTimeout ELSE ErrWaitStaleCoordinates)
        Select(r, deadline) ==
            IF r.now >= overallTimeout /\ r.now >= deadline
            THEN Chosen(Ask(r, "select", ""))
            ELSE IF r.now >= overallTimeout THEN Return(r, r.instance, ErrWaitTimeout)
            ELSE IF r.now >= deadline THEN Return(r, r.instance, ErrWaitStaleCoordinates)
            ELSE Slept(Ask(r, "time.Sleep(retryInterval)", ""),
                       r.instance.ExecBinlogCoordinates, deadline)
        Polled(r) ==
            IF SQLThreadUpToDate(r.instance) THEN r
            ELSE IF r.instance.SQLDelay # 0
            THEN Return(r, r.instance, <<"WaitForSQLThreadUpToDate: instance has SQL Delay">>)
            ELSE Select(r, StaleDeadline(r.now, r.instance.ExecBinlogCoordinates, last,
                                         staleDeadline, staleCoordinatesTimeout))
        Read(r) ==
            IF r.pending # NoInteraction \/ r.err # NoError THEN r
            ELSE Polled(Log(r, [ev |-> "poll", stmt |-> "ReadTopologyInstance",
                                args |-> <<r.now, r.instance.ExecBinlogCoordinates,
                                           SQLThreadUpToDate(r.instance)>>,
                                err |-> NoError]))
    IN Read(ReadTopologyInstanceReplicating(w))

\* WaitForSQLThreadUpToDate(instanceKey, overallTimeout, staleCoordinatesTimeout)
WaitForSQLThreadUpToDate(w, overallTimeout, staleCoordinatesTimeout) ==
    LET Timers(general, stale) ==
            WaitForSQLThreadUpToDateLoop([w EXCEPT !.now = 0],
                [LogFile |-> 0, LogPos |-> 0], stale, general, stale)
    IN Timers(IF overallTimeout = 0 THEN DefaultOverallTimeout ELSE overallTimeout,
              IF staleCoordinatesTimeout = 0
              THEN ReasonableReplicationLagSeconds ELSE staleCoordinatesTimeout)

\* The catch-up of the SQL thread never waited for.
WaitsForCatchUpNever(instance) == FALSE

\* line 293
WaitsForCatchUp(instance) == instance.SQLDelay = 0

\* StopReplicationNicely(instanceKey, timeout)
StopReplicationNicely(w, timeout) ==
    LET Reread(rr) ==
            \* line 312 reads fields of the instance before the error is looked at
            IF rr.instance = NilInstance
            THEN [rr EXCEPT !.panic = TRUE, !.err = ErrNilDereference]
            ELSE rr
        Stopped(instance, e) ==
            IF StopError(instance, e.err) # NoError
            THEN Return(e, instance, StopError(instance, e.err))
            ELSE Reread(ReadTopologyInstance(e))
        Waited(u) ==
            IF u.pending # NoInteraction \/ u.err # NoError THEN u
            ELSE Stopped(u.instance, ExecInstance(u, "stop_slave", <<>>))
        SQLStarted(instance, e) ==
            IF e.err # NoError
            THEN Return(e, NilInstance, <<"StopReplicationNicely: failed:">> \o e.err)
            ELSE IF WaitsForCatchUp(instance)
            THEN Waited(WaitForSQLThreadUpToDate(e, timeout, 0))
            ELSE Stopped(instance, ExecInstance(e, "stop_slave", <<>>))
        IOStopped(instance, e) ==
            IF e.err # NoError
            THEN Return(e, NilInstance, <<"StopReplicationNicely: failed:">> \o e.err)
            ELSE SQLStarted(instance, ExecInstance(e, "start_slave_sql_thread", <<>>))
        Read(r) ==
            IF r.err # NoError THEN r
            ELSE IF ~ReplicationThreadsExist(r.instance) THEN ReturnNotAReplica(r)
            ELSE IOStopped(r.instance, ExecInstance(r, "stop_slave_io_thread", <<>>))
    IN Read(ReadTopologyInstance(w))

ErrPastCoordinates == <<"Start SLAVE UNTIL is past coordinates">>

\* StartReplicationUntilMasterCoordinates stopping wherever the wait ended,
\* at the target or past it.
StartReplicationUntilMasterCoordinatesPastTolerated(w, masterCoordinates) ==
    LET Reached(p) ==
            IF p.err # NoError THEN p
            ELSE StopReplication(p)
        Started(instance, e) ==
            IF e.err # NoError THEN Return(e, instance, e.err)
            ELSE Reached(WaitForExecBinlogCoordinatesToReach(e, masterCoordinates, 0))
        Enabled(s) ==
            IF s.err # NoError THEN s
            ELSE Started(s.instance,
                         ExecInstance(s, "start_slave_until_master_log",
                             <<masterCoordinates.LogFile, masterCoordinates.LogPos>>))
        Disabled(d) ==
            IF d.err # NoError THEN d
            ELSE Enabled(MaybeEnableSemiSyncReplica(d, d.instance))
        Read(r) ==
            IF r.err # NoError THEN r
            ELSE IF ~IsReplica(r.instance) THEN ReturnNotAReplica(r)
            ELSE IF ~ReplicationThreadsStopped(r.instance)
            THEN Return(r, r.instance, ErrThreadsNotStopped)
            ELSE Disabled(MaybeDisableSemiSyncMaster(r, r.instance))
    IN Read(ReadTopologyInstance(w))

\* StartReplicationUntilMasterCoordinates(instanceKey, masterCoordinates)
StartReplicationUntilMasterCoordinates(w, masterCoordinates) ==
    LET Reached(p) ==
            IF p.err # NoError THEN p
            ELSE IF ~p.exactMatch THEN Return(p, p.instance, ErrPastCoordinates)
            ELSE StopReplication(p)
        Started(instance, e) ==
            IF e.err # NoError THEN Return(e, instance, e.err)
            ELSE Reached(WaitForExecBinlogCoordinatesToReach(e, masterCoordinates, 0))
        Enabled(s) ==
            IF s.err # NoError THEN s
            ELSE Started(s.instance,
                         ExecInstance(s, "start_slave_until_master_log",
                             <<masterCoordinates.LogFile, masterCoordinates.LogPos>>))
        Disabled(d) ==
            IF d.err # NoError THEN d
            ELSE Enabled(MaybeEnableSemiSyncReplica(d, d.instance))
        Read(r) ==
            IF r.err # NoError THEN r
            ELSE IF ~IsReplica(r.instance) THEN ReturnNotAReplica(r)
            ELSE IF ~ReplicationThreadsStopped(r.instance)
            THEN Return(r, r.instance, ErrThreadsNotStopped)
            ELSE Disabled(MaybeDisableSemiSyncMaster(r, r.instance))
    IN Read(ReadTopologyInstance(w))

\* ResetReplication(instanceKey)
ResetReplication(w) ==
    LET Reset(instance, last) ==
            IF last.err # NoError THEN Return(last, instance, last.err)
            ELSE ReadTopologyInstance(last)
        \* lines 1106-1110
        Tried(instance, first) ==
            IF first.err # NoError
               /\ Contains(first.err, Error1201CouldnotInitializeMasterInfoStructure)
            THEN Reset(instance, ExecInstance(workaroundBug83713(first),
                                              "reset_slave_50603_all", <<>>))
            ELSE Reset(instance, first)
        Detached(instance, h) ==
            IF h.err # NoError THEN Return(h, instance, h.err)
            ELSE Tried(instance, ExecInstance(h, "reset_slave_50603_all", <<>>))
        Read(r) ==
            IF r.err # NoError THEN r
            ELSE IF ThreadsNotStopped(r.instance)
            THEN Return(r, r.instance, ErrThreadsNotStopped)
            ELSE IF r.Noop THEN Return(r, r.instance, ErrNoop)
            ELSE Detached(r.instance, ExecInstance(r, "change_master_to_master_host", <<>>))
    IN Read(ReadTopologyInstance(w))

\* ResetMaster looking at the dry-run flag before it looks at the threads.
ResetMasterNoopFirst(w) ==
    LET Reset(instance, e) ==
            IF e.err # NoError THEN Return(e, instance, e.err)
            ELSE ReadTopologyInstance(e)
        Read(r) ==
            IF r.err # NoError THEN r
            ELSE IF r.Noop THEN Return(r, r.instance, ErrNoop)
            ELSE IF ThreadsNotStopped(r.instance)
            THEN Return(r, r.instance, ErrThreadsNotStopped)
            ELSE Reset(r.instance, ExecInstance(r, "reset_master", <<>>))
    IN Read(ReadTopologyInstance(w))

\* ResetMaster(instanceKey)
ResetMaster(w) ==
    LET Reset(instance, e) ==
            IF e.err # NoError THEN Return(e, instance, e.err)
            ELSE ReadTopologyInstance(e)
        Read(r) ==
            IF r.err # NoError THEN r
            ELSE IF ThreadsNotStopped(r.instance)
            THEN Return(r, r.instance, ErrThreadsNotStopped)
            ELSE IF r.Noop THEN Return(r, r.instance, ErrNoop)
            ELSE Reset(r.instance, ExecInstance(r, "reset_master", <<>>))
    IN Read(ReadTopologyInstance(w))

ErrEmptyUser == <<"Empty user in ChangeMasterCredentials()">>

\* lines 835-858: the parameters of the statement, for the credentials given
CredentialsArgs(creds) ==
    <<creds.User>>
    \o (IF creds.Password # "" THEN <<creds.Password>> ELSE <<>>)
    \o (IF creds.SSLCaCert # "" THEN <<creds.SSLCaCert>> ELSE <<>>)
    \o (IF creds.SSLCert # "" THEN <<creds.SSLCert>> ELSE <<>>)
    \o (IF creds.SSLKey # "" THEN <<creds.SSLKey>> ELSE <<>>)

\* ChangeMasterCredentials(instanceKey, creds)
ChangeMasterCredentials(w, creds) ==
    LET Changed(instance, e) ==
            IF e.err # NoError THEN Return(e, instance, e.err)
            ELSE ReadTopologyInstance(e)
        Read(r) ==
            IF r.err # NoError THEN r
            ELSE IF creds.User = "" THEN Return(r, r.instance, ErrEmptyUser)
            ELSE IF ThreadsNotStopped(r.instance)
            THEN Return(r, r.instance, ErrThreadsNotStopped)
            ELSE IF r.Noop THEN Return(r, r.instance, ErrNoop)
            ELSE Changed(r.instance, ExecInstance(r, "change_master_to_with_params",
                                                  CredentialsArgs(creds)))
    IN Read(ReadTopologyInstance(w))

\* EnableMasterSSL(instanceKey)
EnableMasterSSL(w) ==
    LET Enabled(instance, e) ==
            IF e.err # NoError THEN Return(e, instance, e.err)
            ELSE ReadTopologyInstance(e)
        Read(r) ==
            IF r.err # NoError THEN r
            ELSE IF ThreadsNotStopped(r.instance)
            THEN Return(r, r.instance, ErrThreadsNotStopped)
            ELSE IF r.Noop THEN Return(r, r.instance, ErrNoop)
            ELSE Enabled(r.instance, ExecInstance(r, "change_master_to_master_ssl", <<>>))
    IN Read(ReadTopologyInstance(w))

\* skipQueryClassic(instance)
skipQueryClassic(w, instance) == ExecInstance(w, "set_sql_slave_skip_counter", <<>>)

\* EmptyCommitInstance(instanceKey)
EmptyCommitInstance(w) ==
    LET Answered(a) ==
            Log([a EXCEPT !.err = a.ans.err],
                [ev |-> "exec", stmt |-> "begin_commit", args |-> <<>>, err |-> a.ans.err])
    IN Answered(Ask(w, "EmptyCommitInstance", ""))

ErrNextGTID == <<"NextGTID failed">>

ErrEmptyNextGTID == <<"Empty NextGTID() in skipQueryGtid()">>

\* skipQueryOracleGtid committing the empty transaction before GTID_NEXT is
\* set.
skipQueryOracleGtidCommitFirst(w, instance) ==
    LET Set(c) ==
            IF c.err # NoError THEN c
            ELSE ExecInstance(c, "set_gtid_next_automatic", <<>>)
        Committed(g) ==
            IF g.err # NoError THEN g
            ELSE Set(ExecInstance(g, "set_gtid_next", <<instance.NextGTID>>))
    IN
    IF instance.NextGTID = "error" THEN [w EXCEPT !.err = ErrNextGTID]
    ELSE IF instance.NextGTID = "" THEN [w EXCEPT !.err = ErrEmptyNextGTID]
    ELSE Committed(EmptyCommitInstance(w))

\* skipQueryOracleGtid(instance); instance.NextGTID is what NextGTID()
\* makes of the snapshot: a GTID, the empty string, or "error"
skipQueryOracleGtid(w, instance) ==
    LET Committed(c) ==
            IF c.err # NoError THEN c
            ELSE ExecInstance(c, "set_gtid_next_automatic", <<>>)
        Next(g) ==
            IF g.err # NoError THEN g ELSE Committed(EmptyCommitInstance(g))
    IN
    IF instance.NextGTID = "error" THEN [w EXCEPT !.err = ErrNextGTID]
    ELSE IF instance.NextGTID = "" THEN [w EXCEPT !.err = ErrEmptyNextGTID]
    ELSE Next(ExecInstance(w, "set_gtid_next", <<instance.NextGTID>>))

ErrSQLThreadRunning == <<"Replication SQL thread is running">>

ErrNoSQLError == <<"No SQL error">>

ErrMariaDBGTIDSkip == <<"is replicating with MariaDB GTID">>

\* line 1244: SkipQuery goes on to StartReplication
Restarting(w) ==
    Log(w, [ev |-> "call", stmt |-> "StartReplication", args |-> <<>>, err |-> NoError])

\* SkipQuery going on to StartReplication whether or not the skip went
\* through.
SkipQueryRestartingAnyway(w) ==
    LET Skipped(instance, k) ==
            StartReplication(Restarting(WriteSink(k, "AuditOperation", <<"skip-query">>)))
        Read(r) ==
            IF r.err # NoError THEN r
            ELSE IF ~IsReplica(r.instance) THEN ReturnNotAReplica(r)
            ELSE IF r.instance.ReplicationSQLThreadRuning
            THEN Return(r, r.instance, ErrSQLThreadRunning)
            ELSE IF r.instance.LastSQLError = ""
            THEN Return(r, r.instance, ErrNoSQLError)
            ELSE IF r.Noop THEN Return(r, r.instance, ErrNoop)
            ELSE IF r.instance.UsingOracleGTID
            THEN Skipped(r.instance, skipQueryOracleGtid(r, r.instance))
            ELSE IF r.instance.UsingMariaDBGTID
            THEN Return(r, r.instance, ErrMariaDBGTIDSkip)
            ELSE Skipped(r.instance, skipQueryClassic(r, r.instance))
    IN Read(ReadTopologyInstance(w))

\* SkipQuery(instanceKey)
SkipQuery(w) ==
    LET Skipped(instance, k) ==
            IF k.err # NoError THEN Return(k, instance, k.err)
            ELSE StartReplication(Restarting(WriteSink(k, "AuditOperation", <<"skip-query">>)))
        Read(r) ==
            IF r.err # NoError THEN r
            ELSE IF ~IsReplica(r.instance) THEN ReturnNotAReplica(r)
            ELSE IF r.instance.ReplicationSQLThreadRuning
            THEN Return(r, r.instance, ErrSQLThreadRunning)
            ELSE IF r.instance.LastSQLError = ""
            THEN Return(r, r.instance, ErrNoSQLError)
            ELSE IF r.Noop THEN Return(r, r.instance, ErrNoop)
            ELSE IF r.instance.UsingOracleGTID
            THEN Skipped(r.instance, skipQueryOracleGtid(r, r.instance))
            ELSE IF r.instance.UsingMariaDBGTID
            THEN Return(r, r.instance, ErrMariaDBGTIDSkip)
            ELSE Skipped(r.instance, skipQueryClassic(r, r.instance))
    IN Read(ReadTopologyInstance(w))

ErrNextFile == <<"Log file number is zero, cannot detect next file">>

\* BinlogCoordinates.NextFileCoordinates: the file after the given one, at
\* position 0; a file name without a number, here file 0, has none.
NextFileCoordinates(coordinates) ==
    IF coordinates.LogFile = 0
    THEN [coordinates |-> [LogFile |-> 0, LogPos |-> 0], err |-> ErrNextFile]
    ELSE [coordinates |-> [LogFile |-> coordinates.LogFile + 1, LogPos |-> 0],
          err |-> NoError]

\* line 1074: SkipToNextBinaryLog goes into ChangeMasterTo
ChangingMaster(w, masterKey, masterBinlogCoordinates, skipUnresolve, gtidHint) ==
    Log(w, [ev |-> "call", stmt |-> "ChangeMasterTo",
            args |-> <<masterKey, masterBinlogCoordinates, skipUnresolve, gtidHint>>,
            err |-> NoError])

\* line 1074: ChangeMasterTo has returned to SkipToNextBinaryLog
ChangedMaster(w) ==
    Log(w, [ev |-> "return", stmt |-> "ChangeMasterTo", args |-> <<>>, err |-> w.err])

\* SkipToNextBinaryLog starting replication whatever ChangeMasterTo returned.
SkipToNextBinaryLogStartingAnyway(w) ==
    LET Changed(c) ==
            StartReplication(Restarting(WriteSink(c, "AuditOperation", <<"skip-binlog">>)))
        Next(r, next) ==
            IF next.err # NoError THEN Return(r, r.instance, next.err)
            ELSE Changed(ChangedMaster(ChangeMasterTo(
                     ChangingMaster(r, r.instance.MasterKey,
                                    [next.coordinates EXCEPT !.LogPos = 4],
                                    FALSE, GTIDHintNeutral),
                     r.instance.MasterKey, [next.coordinates EXCEPT !.LogPos = 4],
                     FALSE, GTIDHintNeutral)))
        Read(r) ==
            IF r.err # NoError THEN r
            ELSE Next(r, NextFileCoordinates(r.instance.ExecBinlogCoordinates))
    IN Read(ReadTopologyInstance(w))

\* lines 1074-1079: ChangeMasterTo has returned
SkipToNextBinaryLogChanged(c) ==
    IF c.err # NoError THEN c
    ELSE StartReplication(Restarting(WriteSink(c, "AuditOperation", <<"skip-binlog">>)))

\* lines 1066-1073: the next file, from its start
SkipToNextBinaryLogFrom(r, next) ==
    IF next.err # NoError THEN Return(r, r.instance, next.err)
    ELSE SkipToNextBinaryLogChanged(ChangedMaster(ChangeMasterTo(
             ChangingMaster(r, r.instance.MasterKey,
                            [next.coordinates EXCEPT !.LogPos = 4],
                            FALSE, GTIDHintNeutral),
             r.instance.MasterKey, [next.coordinates EXCEPT !.LogPos = 4],
             FALSE, GTIDHintNeutral)))

\* lines 1061-1064: the instance is read
SkipToNextBinaryLogRead(r) ==
    IF r.err # NoError THEN r
    ELSE SkipToNextBinaryLogFrom(r, NextFileCoordinates(r.instance.ExecBinlogCoordinates))

\* SkipToNextBinaryLog(instanceKey)
SkipToNextBinaryLog(w) == SkipToNextBinaryLogRead(ReadTopologyInstance(w))

ErrEmptyUserFound == <<"Empty username found in mysql.slave_master_info">>

\* &ReplicationCredentials{}
NoCredentials == [User |-> "", Password |-> "", SSLCaCert |-> "", SSLCert |-> "", SSLKey |-> ""]

\* lines 1277-1295: the first row of resultData, column by column
CredentialsOfRow(resultData) ==
    LET row == IF Len(resultData) > 0 THEN resultData[1] ELSE <<>>
        Column(i) == IF Len(row) >= i THEN row[i] ELSE ""
    IN [User |-> Column(1), Password |-> Column(2), SSLCaCert |-> Column(3),
        SSLCert |-> Column(4), SSLKey |-> Column(5)]

\* A query is sent to the instance for credentials.
Queried(w, query) ==
    Log(w, [ev |-> "query", stmt |-> query, args |-> <<>>, err |-> w.ans.err])

\* ReadReplicationCredentials(instanceKey); what it returns as creds is the
\* instance of the result
ReadReplicationCredentials(w) ==
    LET \* lines 1302-1321
        Scanned(s, creds) ==
            IF s.ans.err # NoError THEN Return(s, creds, s.ans.err)
            ELSE IF s.ans.val[1] = ""
            THEN Return(s, [creds EXCEPT !.User = s.ans.val[1], !.Password = s.ans.val[2]],
                        ErrEmptyUserFound)
            ELSE Return(s, [creds EXCEPT !.User = s.ans.val[1], !.Password = s.ans.val[2]],
                        NoError)
        Fallback(x, creds) ==
            Scanned(Queried(Ask(x, "ScanInstanceRow", "mysql.slave_master_info"),
                            "mysql.slave_master_info"),
                    creds)
        \* lines 1273-1302: err at 1296 and 1299 is the one of line 1268, nil
        Answered(q) ==
            IF q.ans.err # NoError THEN Return(q, NoCredentials, q.ans.err)
            ELSE IF CredentialsOfRow(q.ans.val).User = ""
            THEN Fallback(q, CredentialsOfRow(q.ans.val))
            ELSE Return(q, CredentialsOfRow(q.ans.val), NoError)
        Opened(o) ==
            IF o.ans.err # NoError THEN Return(o, NoCredentials, o.ans.err)
            ELSE Answered(Queried(Ask(o, "QueryResultData", "ReplicationCredentialsQuery"),
                                  "ReplicationCredentialsQuery"))
    IN IF w.Config.ReplicationCredentialsQuery # ""
       THEN Opened(Ask(w, "OpenTopology", ""))
       ELSE Fallback(w, NoCredentials)

\* SetReadOnly clearing read_only whether or not the master-side switch
\* could be turned on.
SetReadOnlyWhateverSemiSync(w, readOnly) ==
    LET Done(instance, d) ==
            Return(WriteSink(d, "AuditOperation", <<"read-only">>), instance, NoError)
        \* lines 1360-1364
        Disabled(instance, m) ==
            IF m.err # NoError THEN Return(m, instance, m.err)
            ELSE Done(instance, m)
        \* lines 1353-1356
        Reread(rr) ==
            IF rr.err # NoError THEN rr
            ELSE IF rr.instance.SemiSyncPriority > 0 /\ readOnly
            THEN Disabled(rr.instance, SetSemiSyncMaster(rr, FALSE))
            ELSE Done(rr.instance, rr)
        \* lines 1345-1352: the error of super_read_only is logged and dropped
        Set(instance, e) ==
            IF e.err # NoError THEN Return(e, instance, e.err)
            ELSE IF e.Config.UseSuperReadOnly
            THEN Reread(ReadTopologyInstance(
                            ExecInstance(e, "set_super_read_only", <<readOnly>>)))
            ELSE Reread(ReadTopologyInstance(e))
        \* lines 1338-1340
        Enabled(instance, m) ==
            IF FALSE THEN Return(m, instance, m.err)
            ELSE Set(instance, ExecInstance(m, "set_read_only", <<readOnly>>))
        Read(r) ==
            IF r.err # NoError THEN r
            ELSE IF r.Noop THEN Return(r, r.instance, ErrNoop)
            ELSE IF r.instance.SemiSyncPriority > 0 /\ ~readOnly
            THEN Enabled(r.instance, SetSemiSyncMaster(r, TRUE))
            ELSE Set(r.instance, ExecInstance(r, "set_read_only", <<readOnly>>))
    IN Read(ReadTopologyInstance(w))

\* SetReadOnly(instanceKey, readOnly)
SetReadOnly(w, readOnly) ==
    LET Done(instance, d) ==
            Return(WriteSink(d, "AuditOperation", <<"read-only">>), instance, NoError)
        \* lines 1360-1364
        Disabled(instance, m) ==
            IF m.err # NoError THEN Return(m, instance, m.err)
            ELSE Done(instance, m)
        \* lines 1353-1356
        Reread(rr) ==
            IF rr.err # NoError THEN rr
            ELSE IF rr.instance.SemiSyncPriority > 0 /\ readOnly
            THEN Disabled(rr.instance, SetSemiSyncMaster(rr, FALSE))
            ELSE Done(rr.instance, rr)
        \* lines 1345-1352: the error of super_read_only is logged and dropped
        Set(instance, e) ==
            IF e.err # NoError THEN Return(e, instance, e.err)
            ELSE IF e.Config.UseSuperReadOnly
            THEN Reread(ReadTopologyInstance(
                            ExecInstance(e, "set_super_read_only", <<readOnly>>)))
            ELSE Reread(ReadTopologyInstance(e))
        \* lines 1338-1340
        Enabled(instance, m) ==
            IF m.err # NoError THEN Return(m, instance, m.err)
            ELSE Set(instance, ExecInstance(m, "set_read_only", <<readOnly>>))
        Read(r) ==
            IF r.err # NoError THEN r
            ELSE IF r.Noop THEN Return(r, r.instance, ErrNoop)
            ELSE IF r.instance.SemiSyncPriority > 0 /\ ~readOnly
            THEN Enabled(r.instance, SetSemiSyncMaster(r, TRUE))
            ELSE Set(r.instance, ExecInstance(r, "set_read_only", <<readOnly>>))
    IN Read(ReadTopologyInstance(w))

\* config.Config with both semi-sync switches off: the legacy policy
LegacyConfig == [EnforceExactSemiSyncReplicas |-> FALSE, RecoverLockedSemiSyncMaster |-> FALSE]

\* A stopped replica of OldMasterKey, plain file:pos replication, no semi-sync.
BaseServer ==
    [Key |-> InstanceKeyA, MasterKey |-> OldMasterKey,
     ReplicationIOThreadState |-> ReplicationThreadStateStopped,
     ReplicationSQLThreadState |-> ReplicationThreadStateStopped,
     UsingMariaDBGTID |-> FALSE, IsMariaDB |-> FALSE,
     UsingOracleGTID |-> FALSE, SupportsOracleGTID |-> FALSE, IsMaxScale |-> FALSE,
     SemiSyncPriority |-> 0, SemiSyncMasterEnabled |-> FALSE,
     SemiSyncReplicaEnabled |-> FALSE, PromotionRule |-> "neutral",
     LastSQLError |-> "", NextGTID |-> "", SQLDelay |-> 0,
     ExecBinlogCoordinates |-> ExecutedCoordinates,
     ReadBinlogCoordinates |-> PastCoordinates]

\* A server that replicates from no one has no replication threads; one with
\* a master configured has both, each stopped or running.
ReplicationStates ==
    {[MasterKey |-> NoKey, IO |-> ReplicationThreadStateNoThread,
      SQL |-> ReplicationThreadStateNoThread]}
    \cup [MasterKey : {OldMasterKey},
          IO : {ReplicationThreadStateStopped, ReplicationThreadStateRunning},
          SQL : {ReplicationThreadStateStopped, ReplicationThreadStateRunning}]

Replicating(s, r) ==
    [s EXCEPT !.MasterKey = r.MasterKey, !.ReplicationIOThreadState = r.IO,
              !.ReplicationSQLThreadState = r.SQL]

\* The servers and configurations each operation is called on: those that
\* vary what the operation reads, the rest as in BaseServer.
Scenarios(op) ==
    CASE op \in {"StopReplication", "RestartReplication"} ->
             {[server |-> [Replicating(BaseServer, r) EXCEPT !.IsMaxScale = x],
               Config |-> LegacyConfig] :
                  r \in ReplicationStates, x \in BOOLEAN}
      [] op = "StopReplicationNicely" ->
             {[server |-> [Replicating(BaseServer, r) EXCEPT !.IsMaxScale = x,
                                                             !.SQLDelay = delay],
               Config |-> LegacyConfig] :
                  r \in ReplicationStates, x \in BOOLEAN, delay \in {0, 5}}
      [] op \in {"ResetReplication", "ResetMaster", "ChangeMasterCredentials",
                 "EnableMasterSSL"} ->
             {[server |-> Replicating(BaseServer, r), Config |-> LegacyConfig] :
                  r \in ReplicationStates}
      [] op = "ChangeMasterTo" ->
             {[server |-> [Replicating(BaseServer, r) EXCEPT
                               !.UsingMariaDBGTID = d[1], !.IsMariaDB = d[2],
                               !.UsingOracleGTID = d[3], !.SupportsOracleGTID = d[4]],
               Config |-> LegacyConfig] :
                  r \in ReplicationStates,
                  d \in BOOLEAN \X BOOLEAN \X BOOLEAN \X BOOLEAN}
      [] op \in {"StartReplication", "AnalyzeSemiSyncReplicaTopology"} ->
             {[server |-> [Replicating(BaseServer, r) EXCEPT
                               !.SemiSyncPriority = p[1], !.SemiSyncMasterEnabled = p[2],
                               !.SemiSyncReplicaEnabled = p[3], !.PromotionRule = p[4]],
               Config |-> LegacyConfig] :
                  r \in ReplicationStates,
                  p \in {0, 1} \X BOOLEAN \X BOOLEAN \X {"neutral", MustNotPromoteRule}}
             \cup
             {[server |-> [Replicating(BaseServer, r) EXCEPT
                               !.SemiSyncPriority = p[1], !.SemiSyncReplicaEnabled = p[2]],
               Config |-> c] :
                  r \in {x \in ReplicationStates : x.IO = x.SQL /\ x.MasterKey # NoKey},
                  p \in {0, 1} \X BOOLEAN,
                  c \in [EnforceExactSemiSyncReplicas : BOOLEAN,
                         RecoverLockedSemiSyncMaster : BOOLEAN] \ {LegacyConfig}}
      [] op = "StartReplicationUntilMasterCoordinates" ->
             {[server |-> [Replicating(BaseServer, r) EXCEPT !.SemiSyncPriority = p],
               Config |-> LegacyConfig] :
                  r \in ReplicationStates, p \in {0, 1}}
      [] op = "ReadReplicationCredentials" ->
             {[server |-> BaseServer,
               Config |-> [EnforceExactSemiSyncReplicas |-> FALSE,
                           RecoverLockedSemiSyncMaster |-> FALSE,
                           ReplicationCredentialsQuery |-> q]] :
                  q \in {"", "select user, password from meta.credentials"}}
      [] op = "SetReadOnly" ->
             {[server |-> [BaseServer EXCEPT !.MasterKey = NoKey,
                               !.ReplicationIOThreadState = ReplicationThreadStateNoThread,
                               !.ReplicationSQLThreadState = ReplicationThreadStateNoThread,
                               !.SemiSyncPriority = p, !.SemiSyncMasterEnabled = e],
               Config |-> [EnforceExactSemiSyncReplicas |-> FALSE,
                           RecoverLockedSemiSyncMaster |-> FALSE,
                           UseSuperReadOnly |-> u]] :
                  p \in {0, 1}, e \in BOOLEAN, u \in BOOLEAN}
      [] op = "SetSemiSyncReplica" ->
             {[server |-> [Replicating(BaseServer, r) EXCEPT !.SemiSyncReplicaEnabled = e],
               Config |-> LegacyConfig] :
                  r \in ReplicationStates, e \in BOOLEAN}
      [] op = "SkipToNextBinaryLog" ->
             {[server |-> [Replicating(BaseServer, r) EXCEPT
                               !.ExecBinlogCoordinates = [LogFile |-> f, LogPos |-> 7]],
               Config |-> LegacyConfig] :
                  r \in ReplicationStates, f \in {0, 1}}
      [] op = "SkipQuery" ->
             {[server |-> [Replicating(BaseServer, r) EXCEPT
                               !.LastSQLError = e, !.UsingMariaDBGTID = d[1],
                               !.IsMariaDB = d[1], !.UsingOracleGTID = d[2],
                               !.SupportsOracleGTID = d[2], !.NextGTID = d[3]],
               Config |-> LegacyConfig] :
                  r \in ReplicationStates, e \in {"", "Error 1062"},
                  d \in {<<FALSE, FALSE, "">>, <<TRUE, FALSE, "">>,
                         <<FALSE, TRUE, "">>, <<FALSE, TRUE, "error">>,
                         <<FALSE, TRUE, "uuid:5">>, <<TRUE, TRUE, "uuid:5">>}}

Operations ==
    {"StopReplication", "StopReplicationNicely", "StartReplication",
     "RestartReplication", "StartReplicationUntilMasterCoordinates", "ChangeMasterTo",
     "ResetReplication", "ResetMaster", "SkipQuery", "AnalyzeSemiSyncReplicaTopology",
     "ChangeMasterCredentials", "EnableMasterSSL"}

OpsInit ==
    /\ \E sc \in UNION {Scenarios(op) : op \in Operations} :
           /\ server = sc.server
           /\ Config = sc.Config
    /\ Noop \in BOOLEAN
    /\ call = NoCall
    /\ answers = <<>>
    /\ world = NewWorld(server, Noop, Config, answers)
    /\ ExecIdle
    /\ SemiIdle
    /\ WaitIdle
    /\ FanIdle

\* The call as far as the answers given take it.
Run(c, w) ==
    CASE c.op = "StopReplication" -> StopReplication(w)
      [] c.op = "StopReplicationNicely" -> StopReplicationNicely(w, c.timeout)
      [] c.op = "StartReplication" -> StartReplication(w)
      [] c.op = "RestartReplication" -> RestartReplication(w)
      [] c.op = "StartReplicationUntilMasterCoordinates" ->
             StartReplicationUntilMasterCoordinates(w, c.masterCoordinates)
      [] c.op = "ChangeMasterTo" ->
             ChangeMasterTo(w, c.masterKey, c.masterBinlogCoordinates,
                            c.skipUnresolve, c.gtidHint)
      [] c.op = "ResetReplication" -> ResetReplication(w)
      [] c.op = "ResetMaster" -> ResetMaster(w)
      [] c.op = "SkipQuery" -> SkipQuery(w)
      [] c.op = "ChangeMasterCredentials" -> ChangeMasterCredentials(w, c.creds)
      [] c.op = "EnableMasterSSL" -> EnableMasterSSL(w)
      [] c.op = "SkipToNextBinaryLog" -> SkipToNextBinaryLog(w)
      [] c.op = "SetReadOnly" -> SetReadOnly(w, c.readOnly)
      [] c.op = "ReadReplicationCredentials" -> ReadReplicationCredentials(w)
      [] c.op = "SetSemiSyncReplica" ->
             IF c.twice
             THEN SetSemiSyncReplica(
                      SettingSemiSyncReplica(
                          SetSemiSyncReplica(SettingSemiSyncReplica(w, c.enableReplica),
                                             c.enableReplica),
                          c.enableReplica),
                      c.enableReplica)
             ELSE SetSemiSyncReplica(SettingSemiSyncReplica(w, c.enableReplica),
                                     c.enableReplica)
      [] c.op = "AnalyzeSemiSyncReplicaTopology" ->
             AnalyzeSemiSyncReplicaTopology(w, c.includeNonReplicatingInstance,
                                            c.exactReplicaTopology)
      [] OTHER -> w

\* The call c as far as the answers take it.
Result(c, given) == Run(c, NewWorld(server, Noop, Config, given))

\* The call has returned: every interaction it attempted was answered.
Returned == call # NoCall /\ world.pending = NoInteraction

\* An operation is called on a server it is called on in the model.
Call(c) ==
    /\ call = NoCall
    /\ [server |-> server, Config |-> Config] \in Scenarios(c.op)
    /\ call' = c
    /\ world' = Result(c, answers)
    /\ UNCHANGED <<server, Noop, Config, answers, execVars, semiVars, waitVars, fanVars>>

\* The calls made with arguments, one for each choice of the arguments.
Calls ==
    {[op |-> "StopReplicationNicely", timeout |-> timeout] : timeout \in {0, 3}}
    \cup
    {[op |-> "SetReadOnly", readOnly |-> readOnly] : readOnly \in BOOLEAN}
    \cup
    {[op |-> "SetSemiSyncReplica", enableReplica |-> enableReplica, twice |-> twice] :
        enableReplica \in BOOLEAN, twice \in BOOLEAN}
    \cup
    {[op |-> "ChangeMasterCredentials", creds |-> creds] :
        creds \in [User : {"", "repl"}, Password : {"", "secret"}, SSLCaCert : {""},
                   SSLCert : {""}, SSLKey : {"", "key.pem"}]}
    \cup
    {[op |-> "AnalyzeSemiSyncReplicaTopology",
      includeNonReplicatingInstance |-> InstanceKeyA,
      exactReplicaTopology |-> exact] : exact \in BOOLEAN}
    \cup
    {[op |-> "StartReplicationUntilMasterCoordinates",
      masterCoordinates |-> TargetCoordinates]}
    \cup
    {[op |-> "ChangeMasterTo", masterKey |-> NewMasterKey,
      masterBinlogCoordinates |-> TargetCoordinates,
      skipUnresolve |-> skipUnresolve, gtidHint |-> gtidHint] :
        skipUnresolve \in BOOLEAN,
        gtidHint \in {GTIDHintDeny, GTIDHintNeutral, GTIDHintForce}}

CallsOf(op) == {c \in Calls : c.op = op}

CallStopReplication == Call([op |-> "StopReplication"])

CallStopReplicationNicely ==
    \E c \in CallsOf("StopReplicationNicely") : Call(c)

CallStartReplication == Call([op |-> "StartReplication"])

CallRestartReplication == Call([op |-> "RestartReplication"])

CallResetReplication == Call([op |-> "ResetReplication"])

CallResetMaster == Call([op |-> "ResetMaster"])

CallSkipQuery == Call([op |-> "SkipQuery"])

CallChangeMasterCredentials ==
    \E c \in CallsOf("ChangeMasterCredentials") : Call(c)

CallEnableMasterSSL == Call([op |-> "EnableMasterSSL"])

\* The master of the instance is analyzed, the instance being the replica to
\* include whether it replicates or not.
CallAnalyzeSemiSyncReplicaTopology ==
    \E c \in CallsOf("AnalyzeSemiSyncReplicaTopology") : Call(c)

CallStartReplicationUntilMasterCoordinates ==
    \E c \in CallsOf("StartReplicationUntilMasterCoordinates") : Call(c)

CallChangeMasterTo ==
    \E c \in CallsOf("ChangeMasterTo") : Call(c)

\* The interaction the call waits on is answered.
Respond ==
    /\ call # NoCall
    /\ Len(answers) < MaxAnswers
    /\ world.pending # NoInteraction
    /\ \E o \in Outcomes(world.pending) :
           /\ answers' = Append(answers, o)
           /\ world' = Result(call, Append(answers, o))
    /\ UNCHANGED <<server, Noop, Config, call, execVars, semiVars, waitVars, fanVars>>

OpsNext ==
    \/ CallStopReplication
    \/ CallStopReplicationNicely
    \/ CallStartReplication
    \/ CallRestartReplication
    \/ CallStartReplicationUntilMasterCoordinates
    \/ CallChangeMasterTo
    \/ CallResetReplication
    \/ CallResetMaster
    \/ CallSkipQuery
    \/ CallAnalyzeSemiSyncReplicaTopology
    \/ CallChangeMasterCredentials
    \/ CallEnableMasterSSL
    \/ Respond

SpecOps == OpsInit /\ [][OpsNext]_vars

\* The operations that are called on their own servers, apart from those of
\* Operations.
MoreOperations ==
    {"SkipToNextBinaryLog", "SetSemiSyncReplica", "ReadReplicationCredentials", "SetReadOnly"}

MoreInit ==
    /\ \E sc \in UNION {Scenarios(op) : op \in MoreOperations} :
           /\ server = sc.server
           /\ Config = sc.Config
    /\ Noop \in BOOLEAN
    /\ call = NoCall
    /\ answers = <<>>
    /\ world = NewWorld(server, Noop, Config, answers)
    /\ ExecIdle
    /\ SemiIdle
    /\ WaitIdle
    /\ FanIdle

CallSkipToNextBinaryLog == Call([op |-> "SkipToNextBinaryLog"])

\* SetSemiSyncReplica is called, once or twice in a row with the same value.
CallSetSemiSyncReplica == \E c \in CallsOf("SetSemiSyncReplica") : Call(c)

CallReadReplicationCredentials == Call([op |-> "ReadReplicationCredentials"])

CallSetReadOnly == \E c \in CallsOf("SetReadOnly") : Call(c)

MoreNext ==
    \/ CallSkipToNextBinaryLog
    \/ CallSetReadOnly
    \/ CallReadReplicationCredentials
    \/ CallSetSemiSyncReplica
    \/ Respond

SpecOpsMore == MoreInit /\ [][MoreNext]_vars

\* The statements of the call so far, the master-change statements among
\* them, and the sink writes.
IsExec(e) == e.ev = "exec"

IsSink(e) == e.ev = "sink"

IsChangeMaster(e) == e.ev = "exec" /\ e.stmt \in ChangeMasterStatements

ExecEvents == SelectSeq(world.log, IsExec)

SinkEvents == SelectSeq(world.log, IsSink)

ChangeMasterExecs == SelectSeq(world.log, IsChangeMaster)

Statements == [i \in DOMAIN ExecEvents |-> ExecEvents[i].stmt]

\* The rows of the priority table, each with the rows above it ruled out.
TableRow(s, hint) ==
    LET row1 == s.UsingMariaDBGTID /\ hint # GTIDHintDeny
        row2 == s.UsingMariaDBGTID /\ hint = GTIDHintDeny
        row3 == ~s.UsingMariaDBGTID /\ s.IsMariaDB /\ hint = GTIDHintForce
        row4 == ~row1 /\ ~row2 /\ ~row3 /\ s.UsingOracleGTID /\ hint # GTIDHintDeny
        row5 == ~row1 /\ ~row2 /\ ~row3 /\ s.UsingOracleGTID /\ hint = GTIDHintDeny
        row6 == ~row1 /\ ~row2 /\ ~row3 /\ ~s.UsingOracleGTID
                /\ s.SupportsOracleGTID /\ hint = GTIDHintForce
    IN  CASE row1 -> 1 [] row2 -> 2 [] row3 -> 3 [] row4 -> 4 [] row5 -> 5
          [] row6 -> 6 [] OTHER -> 7

\* C3: whenever ChangeMasterTo executes a master-change statement, every
\* master-change statement of the call is the one of the first matching row
\* of the table over (UsingMariaDBGTID, IsMariaDB, UsingOracleGTID,
\* SupportsOracleGTID, threads exist, hint): rows 1 and 4 host/port only,
\* row 2 host/port/file/pos with GTID off, row 3 host/port with GTID on by
\* current_pos iff the snapshot has no replication threads and by slave_pos
\* otherwise, row 5 host/port/file/pos with autoposition off, row 6
\* host/port with autoposition on, row 7 plain host/port/file/pos.
C3_StatementByPriorityTable ==
    (call.op = "ChangeMasterTo" /\ Len(ChangeMasterExecs) > 0) =>
        LET s == Snapshot(server)
            row == TableRow(s, call.gtidHint)
            withFilePos == row \in {2, 5, 7}
            expected ==
                CASE row \in {1, 4} -> "change_master_to_master_host_port"
                  [] row = 2 -> "change_master_to_master_host_port_log_gtid_no"
                  [] row = 3 /\ ~ReplicationThreadsExist(s) ->
                         "change_master_to_master_use_gtid_current_pos"
                  [] row = 3 /\ ReplicationThreadsExist(s) ->
                         "change_master_to_master_use_gtid_slave_pos"
                  [] row = 5 -> "change_master_to_master_host_port_log_autoposition_no"
                  [] row = 6 -> "change_master_to_master_host_port_autoposition_yes"
                  [] row = 7 -> "change_master_to_master_host_port_log"
        IN  \A i \in DOMAIN ChangeMasterExecs :
                /\ ChangeMasterExecs[i].stmt = expected
                /\ Len(ChangeMasterExecs[i].args) = IF withFilePos THEN 4 ELSE 2
                /\ withFilePos =>
                       /\ ChangeMasterExecs[i].args[3] = call.masterBinlogCoordinates.LogFile
                       /\ ChangeMasterExecs[i].args[4] = call.masterBinlogCoordinates.LogPos

\* C3 witness: a MariaDB server without replication threads, not on GTID, is
\* turned to GTID by current_pos.
C3_Witness ==
    /\ call.op = "ChangeMasterTo"
    /\ Returned
    /\ world.err = NoError
    /\ call.gtidHint = GTIDHintForce
    /\ server.IsMariaDB /\ ~server.UsingMariaDBGTID
    /\ ~server.UsingOracleGTID /\ ~server.SupportsOracleGTID
    /\ ~ReplicationThreadsExist(server)
    /\ Len(ChangeMasterExecs) = 1
    /\ ChangeMasterExecs[1].stmt = "change_master_to_master_use_gtid_current_pos"

PreconditionErrors(op) ==
    (IF op \in {"StartReplication", "StopReplication", "SkipQuery",
                "StartReplicationUntilMasterCoordinates"}
     THEN {ErrNotAReplica} ELSE {})
    \cup
    (IF op \in {"ChangeMasterTo", "ResetReplication", "ResetMaster",
                "StartReplicationUntilMasterCoordinates", "ChangeMasterCredentials",
                "EnableMasterSSL"}
     THEN {ErrThreadsNotStopped} ELSE {})
    \cup
    (IF op = "ChangeMasterCredentials" THEN {ErrEmptyUser} ELSE {})
    \cup
    (IF op = "SkipQuery" THEN {ErrSQLThreadRunning, ErrNoSQLError} ELSE {})

\* C4: a call that returns a precondition error (not a replica, for
\* StartReplication, StopReplication, StartReplicationUntilMasterCoordinates
\* and SkipQuery; threads not stopped, for ChangeMasterTo, ResetReplication,
\* ResetMaster and StartReplicationUntilMasterCoordinates; SQL thread
\* running or no SQL error, for SkipQuery) has executed no statement on the
\* instance and written no sink.
C4_PreconditionErrorBeforeAnyMutation ==
    (Returned /\ world.err \in PreconditionErrors(call.op)) =>
        /\ world.log = <<>>
        /\ world.server = server

\* C4 witness: StartReplicationUntilMasterCoordinates on a replica whose
\* threads run returns the threads-not-stopped error.
C4_Witness ==
    /\ Returned
    /\ call.op = "StartReplicationUntilMasterCoordinates"
    /\ IsReplica(server)
    /\ ~ReplicationThreadsStopped(server)
    /\ world.err = ErrThreadsNotStopped
    /\ world.instance = Snapshot(server)

\* The statements of workaroundBug83713, in order.
WorkaroundStatements ==
    <<"reset_slave", "start_slave_io_thread", "stop_slave_io_thread", "reset_slave">>

\* C5: in one ChangeMasterTo call the master-change statement is executed
\* at most twice; once the call has returned, it was executed a second time
\* iff its first execution failed with 'Error 1201:' in the text and the
\* instance uses Oracle GTID, and then the four workaround statements (reset,
\* start IO thread, stop IO thread, reset) ran once, between the two; any
\* other first failure is returned with nothing else executed, and a failed
\* retry is returned.
C5_RetryOnceAfterError1201 ==
    call.op = "ChangeMasterTo" =>
        /\ Len(ChangeMasterExecs) <= 2
        /\ (Returned /\ Len(ChangeMasterExecs) > 0) =>
               LET first == ChangeMasterExecs[1]
                   retried == Len(ChangeMasterExecs) = 2
                   last == ChangeMasterExecs[Len(ChangeMasterExecs)]
               IN  /\ retried <=>
                          /\ Contains(first.err, "Error 1201:")
                          /\ Snapshot(server).UsingOracleGTID
                   /\ Statements = IF retried
                                   THEN <<first.stmt>> \o WorkaroundStatements \o <<first.stmt>>
                                   ELSE <<first.stmt>>
                   /\ last.err # NoError =>
                          /\ world.err = last.err
                          /\ world.instance = Snapshot(server)

\* C5 witness: the first execution failed with Error 1201 on an Oracle-GTID
\* instance, the workaround ran, and the retry went through.
C5_Witness ==
    /\ call.op = "ChangeMasterTo"
    /\ Returned
    /\ world.err = NoError
    /\ server.UsingOracleGTID
    /\ Len(ChangeMasterExecs) = 2
    /\ ChangeMasterExecs[1].err = Error1201
    /\ ChangeMasterExecs[2].err = NoError
    /\ Len(ExecEvents) = 6

\* The master key ChangeMasterTo changes to: the key it was given or, unless
\* skipUnresolve, the key UnresolveHostname answered.
ExpectedMasterKey ==
    IF call.skipUnresolve \/ Len(answers) < 2 \/ ~answers[2].val
    THEN call.masterKey ELSE UnresolvedKey(call.masterKey)

\* C6: ChangeMasterTo writes the position-equivalence mapping and resets the
\* relay-log coordinate history iff a master-change statement of the call
\* succeeded; the mapping pairs the master key and the executed coordinates
\* of the snapshot read before the change with the key changed to (the
\* unresolved one, unless skipUnresolve) and the coordinates requested. After
\* a precondition failure, an unresolve failure, under dry-run or after a
\* failed statement neither sink is written.
C6_SinksIffStatementSucceeded ==
    call.op = "ChangeMasterTo" =>
        LET succeeded == \E i \in DOMAIN ChangeMasterExecs :
                             ChangeMasterExecs[i].err = NoError
        IN  /\ ~succeeded => SinkEvents = <<>>
            /\ succeeded =>
                   /\ Len(SinkEvents) = 2
                   /\ SinkEvents[1].stmt = "WriteMasterPositionEquivalence"
                   /\ SinkEvents[1].args = <<server.MasterKey, server.ExecBinlogCoordinates,
                                             ExpectedMasterKey,
                                             call.masterBinlogCoordinates>>
                   /\ SinkEvents[2].stmt = "ResetInstanceRelaylogCoordinatesHistory"
                   /\ SinkEvents[2].args = <<server.Key>>
                   /\ ChangeMasterExecs[Len(ChangeMasterExecs)].err = NoError
                   /\ ChangeMasterExecs[1].args[1] = ExpectedMasterKey.Hostname
                   /\ ChangeMasterExecs[1].args[2] = ExpectedMasterKey.Port
            /\ (Returned /\ world.err \in {ErrThreadsNotStopped, ErrNoop}) =>
                   world.log = <<>>

\* C6 witness: the statement succeeded on the retry, with the unresolved key,
\* and both sinks were written.
C6_Witness ==
    /\ call.op = "ChangeMasterTo"
    /\ Returned
    /\ ~call.skipUnresolve
    /\ ExpectedMasterKey = UnresolvedKey(NewMasterKey)
    /\ Len(ChangeMasterExecs) = 2
    /\ ChangeMasterExecs[2].err = NoError
    /\ Len(SinkEvents) = 2
    /\ server.MasterKey = OldMasterKey

\* C7: with Noop set, a call that has returned has executed no statement on
\* the instance, has left the server as it was, and has returned a non-nil
\* error.
C7_NoopExecutesNothing ==
    (Noop /\ Returned) =>
        /\ ExecEvents = <<>>
        /\ world.server = server
        /\ world.err # NoError

\* The statements that set the replica-side ack flag, among those executed.
IsSetSemiSyncReplica(e) == e.ev = "exec" /\ e.stmt = "set_rpl_semi_sync_slave_enabled"

SetSemiSyncReplicaExecs == SelectSeq(world.log, IsSetSemiSyncReplica)

\* C15: under the legacy policy (both switches off) no statement sets the
\* replica-side ack flag to enabled on a replica whose promotion rule is
\* 'must not promote'; on a replica of priority > 0 the value requested is
\* (rule is not must-not-promote), so that a StartReplication that returned
\* without error leaves the flag at that value; on a replica of priority 0
\* no semi-sync statement is executed.
C15_LegacyNeverEnablesMustNotPromote ==
    (call # NoCall /\ Config = LegacyConfig) =>
        /\ \A i \in DOMAIN SetSemiSyncReplicaExecs :
               /\ server.SemiSyncPriority > 0
               /\ SetSemiSyncReplicaExecs[i].args = <<server.PromotionRule # MustNotPromoteRule>>
        /\ (call.op = "StartReplication" /\ Returned /\ world.err = NoError
            /\ server.SemiSyncPriority > 0) =>
               world.server.SemiSyncReplicaEnabled = (server.PromotionRule # MustNotPromoteRule)
        /\ (call.op = "StartReplication" /\ server.SemiSyncPriority = 0) =>
               \A i \in DOMAIN ExecEvents : ExecEvents[i].stmt = "start_slave"

\* C15 witness: a replica of priority 1 that must not be promoted has the
\* ack flag on; StartReplication turns it off and starts replication.
C15_Witness ==
    /\ call.op = "StartReplication"
    /\ Config = LegacyConfig
    /\ Returned
    /\ world.err = NoError
    /\ server.SemiSyncPriority > 0
    /\ server.PromotionRule = MustNotPromoteRule
    /\ server.SemiSyncReplicaEnabled
    /\ Len(SetSemiSyncReplicaExecs) = 1
    /\ SetSemiSyncReplicaExecs[1].args = <<FALSE>>
    /\ ~world.server.SemiSyncReplicaEnabled

\* The two semi-sync steps of StartReplication, taken on the answers given:
\* whether both have returned, and without error.
SemiSyncStepsReturnedNoError ==
    LET Enabled(e) == e.err = NoError /\ e.pending = NoInteraction
        Disabled(d) ==
            d.err = NoError /\ Enabled(MaybeEnableSemiSyncReplica(d, d.instance))
        Read(r) ==
            r.err = NoError /\ Disabled(MaybeDisableSemiSyncMaster(r, r.instance))
    IN Read(ReadTopologyInstance(NewWorld(server, Noop, Config, answers)))

SemiSyncStatements ==
    {"set_rpl_semi_sync_master_enabled", "set_rpl_semi_sync_slave_enabled",
     "stop_slave_io_thread", "start_slave_io_thread"}

\* C16: in StartReplication every semi-sync configuration statement (the
\* master-side ack flag, the replica-side ack flag and the IO thread bounce
\* that applies it) is executed before START SLAVE, which is executed at
\* most once and only if the instance is a replica and both semi-sync steps
\* returned without error.
C16_SemiSyncBeforeStartSlave ==
    call.op = "StartReplication" =>
        LET starts == {i \in DOMAIN ExecEvents : ExecEvents[i].stmt = "start_slave"}
            semis == {i \in DOMAIN ExecEvents : ExecEvents[i].stmt \in SemiSyncStatements}
        IN  /\ Cardinality(starts) <= 1
            /\ \A i \in semis : \A j \in starts : i < j
            /\ starts # {} =>
                   /\ IsReplica(Snapshot(server))
                   /\ \A i \in semis : ExecEvents[i].stmt # "stop_slave_io_thread"
                                             => ExecEvents[i].err = NoError
                   /\ SemiSyncStepsReturnedNoError

\* C16 witness: the master-side flag is turned off and the replica-side
\* flag on, the IO thread is bounced, and only then replication is started.
C16_Witness ==
    /\ call.op = "StartReplication"
    /\ Returned
    /\ world.err = NoError
    /\ Statements = <<"set_rpl_semi_sync_master_enabled", "set_rpl_semi_sync_slave_enabled",
                      "stop_slave_io_thread", "start_slave_io_thread", "start_slave">>

\* C17: StartReplication returns a nil error only with the snapshot it read
\* again after the wait, and only if that snapshot shows replication running;
\* when START SLAVE went through and the snapshot read again does not show
\* replication running, it returns ReplicationNotRunningError and that
\* snapshot, whatever the wait observed.
C17_NilErrorOnlyIfRunning ==
    (call.op = "StartReplication" /\ Returned) =>
        LET started == \E i \in DOMAIN ExecEvents :
                           /\ ExecEvents[i].stmt = "start_slave"
                           /\ ExecEvents[i].err = NoError
            reread == answers[Len(answers)].err = NoError
        IN  /\ world.err = NoError =>
                   /\ started /\ reread
                   /\ world.instance = Snapshot(world.server)
                   /\ ReplicaRunning(world.instance)
            /\ (started /\ reread /\ ~ReplicaRunning(Snapshot(world.server))) =>
                   /\ world.err = ReplicationNotRunningError
                   /\ world.instance = Snapshot(world.server)

\* C17 witness: the wait saw both threads running, the IO thread has stopped
\* by the time the instance is read again, and the error is returned.
C17_Witness ==
    /\ call.op = "StartReplication"
    /\ Returned
    /\ world.err = ReplicationNotRunningError
    /\ Len(answers) >= 2
    /\ answers[Len(answers) - 1].val = "met"
    /\ world.instance = Snapshot(world.server)
    /\ ~world.instance.ReplicationIOThreadRuning

\* C18: in StopReplication and in the final stop of StopReplicationNicely a
\* failed stop statement is taken for a success (the call goes on to read
\* the instance again) only when the instance is a MaxScale and the error
\* text is exactly 'Error 1199: Slave connection is not running'; every
\* other error of the stop statement is the error returned.
C18_OnlyMaxScaleError1199Swallowed ==
    (call.op \in {"StopReplication", "StopReplicationNicely"} /\ Returned) =>
        \A i \in DOMAIN ExecEvents :
            (ExecEvents[i].stmt = "stop_slave" /\ ExecEvents[i].err # NoError) =>
                IF server.IsMaxScale
                   /\ ExecEvents[i].err = <<"Error 1199: Slave connection is not running">>
                THEN /\ world.err \in {NoError, ReadFailedPartial, ErrNilDereference}
                     /\ world.err = NoError => world.instance = Snapshot(world.server)
                ELSE /\ world.err = ExecEvents[i].err
                     /\ ~world.panic

\* C18 witness: the final stop of StopReplicationNicely fails with Error 1199
\* on a MaxScale and the call returns the instance read again, with no error.
C18_Witness ==
    /\ call.op = "StopReplicationNicely"
    /\ Returned
    /\ server.IsMaxScale
    /\ Len(ExecEvents) = 3
    /\ ExecEvents[3].stmt = "stop_slave"
    /\ ExecEvents[3].err = Error1199
    /\ world.err = NoError

\* The polls of WaitForSQLThreadUpToDate: the time, the executed coordinates
\* and whether the SQL thread was up to date.
IsPoll(e) == e.ev = "poll"

PollEvents == SelectSeq(world.log, IsPoll)

\* C19: StopReplicationNicely issues stop IO thread, start SQL thread and
\* stop both, in this order, with the polls of the wait between the second
\* and the third; the stop-both statement is issued only after both earlier
\* statements went through and either the last poll of the wait showed the
\* SQL thread up to date or the initial snapshot has a non-zero SQL delay,
\* in which case there is no poll.
C19_StopNicelyOrder ==
    call.op = "StopReplicationNicely" =>
        /\ \E k \in 0..3 :
               Statements = SubSeq(<<"stop_slave_io_thread", "start_slave_sql_thread",
                                     "stop_slave">>, 1, k)
        /\ \A i, j \in DOMAIN world.log :
               (world.log[i].ev = "poll" /\ world.log[j].ev = "exec") =>
                   (world.log[j].stmt = "stop_slave" <=> i < j)
        /\ Len(Statements) >= 2 => ExecEvents[1].err = NoError
        /\ Len(Statements) = 3 =>
               /\ ExecEvents[2].err = NoError
               /\ IF server.SQLDelay # 0 THEN PollEvents = <<>>
                  ELSE /\ PollEvents # <<>>
                       /\ PollEvents[Len(PollEvents)].args[3]
        /\ PollEvents # <<>> => Len(Statements) >= 2 /\ ExecEvents[2].err = NoError

\* C19 witness: the SQL thread catches up at the third poll and both
\* threads are then stopped.
C19_Witness ==
    /\ call.op = "StopReplicationNicely"
    /\ Returned
    /\ world.err = NoError
    /\ server.SQLDelay = 0
    /\ Len(PollEvents) = 3
    /\ Len(Statements) = 3
    /\ ReplicationThreadsStopped(world.instance)

\* C20: WaitForSQLThreadUpToDate returns the stale-coordinates error only
\* if, since the last poll whose coordinates differed from those of the poll
\* before it (the first poll included), the whole staleness period has
\* passed, so that every poll within that period saw the same coordinates;
\* it returns the overall-timeout error only once the overall period has
\* passed; and the two errors differ.
C20_TwoIndependentDeadlines ==
    (call.op = "StopReplicationNicely" /\ Returned) =>
        LET n == Len(PollEvents)
            overall == IF call.timeout = 0 THEN DefaultOverallTimeout ELSE call.timeout
            restarts == {i \in 1..n : i = 1 \/ PollEvents[i].args[2] # PollEvents[i - 1].args[2]}
        IN  /\ world.err = ErrWaitStaleCoordinates =>
                   /\ n > 0
                   /\ \A i \in restarts :
                          PollEvents[n].args[1] - PollEvents[i].args[1]
                              >= ReasonableReplicationLagSeconds
                   /\ \A i \in 1..n :
                          PollEvents[n].args[1] - PollEvents[i].args[1]
                              < ReasonableReplicationLagSeconds
                          => PollEvents[i].args[2] = PollEvents[n].args[2]
            /\ world.err = ErrWaitTimeout =>
                   /\ n > 0
                   /\ PollEvents[n].args[1] >= overall
            /\ ErrWaitStaleCoordinates # ErrWaitTimeout

\* C20 witness: the staleness period had passed at the second poll, whose
\* coordinates had moved, and the wait went on; the stale-coordinates error
\* came at a later poll, well before the overall timeout.
C20_Witness ==
    /\ call.op = "StopReplicationNicely"
    /\ call.timeout = 0
    /\ Returned
    /\ world.err = ErrWaitStaleCoordinates
    /\ Len(PollEvents) >= 3
    /\ PollEvents[2].args[1] >= ReasonableReplicationLagSeconds
    /\ PollEvents[2].args[2] # PollEvents[1].args[2]

(***************************************************************************)
(* The polling waits, round by round                                       *)
(***************************************************************************)

\* How many seconds of a wait the clock follows; it stays there afterwards.
MaxClock == 20

\* The clock d seconds later.
Later(now, d) == IF now + d > MaxClock THEN MaxClock ELSE now + d

WaitFunctions ==
    {"WaitForSQLThreadUpToDate", "WaitForExecBinlogCoordinatesToReach",
     "waitForReplicationState"}

\* What a read can show of the replica polled: the SQL thread, where it
\* moves at all, moves forward; the IO thread has read up to PastCoordinates.
ReadableCoordinates(from) ==
    {c \in {ExecutedCoordinates, TargetCoordinates, PastCoordinates} : ~SmallerThan(c, from)}

\* The wait is called: its arguments and the locals it starts with. timeout
\* is overallTimeout or maxWait, 0 for none given; waitForReplicationState
\* takes none.
WaitInit ==
    /\ waiter \in [fn : WaitFunctions, timeout : {0, 3}, SQLDelay : {0, 5},
                   now : {0}, exec : {ExecutedCoordinates},
                   last : {[LogFile |-> 0, LogPos |-> 0]},
                   staleDeadline : {ReasonableReplicationLagSeconds},
                   interval : {waitInterval}, pc : {"polling"}, err : {NoError},
                   exactMatch : {FALSE}, expectationMet : {FALSE}]
    /\ waiter.fn = "waitForReplicationState" => waiter.timeout = 0
    /\ waiter.fn # "WaitForSQLThreadUpToDate" => waiter.SQLDelay = 0
    /\ ExecIdle
    /\ SemiIdle
    /\ OpsIdle
    /\ FanIdle

WaitReturns(p, err) == [p EXCEPT !.pc = "returned", !.err = err]

\* lines 328-360: one round of WaitForSQLThreadUpToDate, up to its sleep.
\* The read of the round fails or shows coordinates.
PollSQLThreadUpToDate ==
    /\ waiter.fn = "WaitForSQLThreadUpToDate"
    /\ waiter.pc = "polling"
    /\ LET overallTimeout ==
               IF waiter.timeout = 0 THEN DefaultOverallTimeout ELSE waiter.timeout
       IN \/ waiter' = WaitReturns(waiter, ReadFailedNil)
          \/ \E c \in ReadableCoordinates(waiter.exec) :
                 LET deadline == StaleDeadline(waiter.now, c, waiter.last,
                                     waiter.staleDeadline, ReasonableReplicationLagSeconds)
                     polled == [waiter EXCEPT !.exec = c, !.last = c,
                                              !.staleDeadline = deadline]
                     read == [waiter EXCEPT !.exec = c]
                 IN IF SQLThreadUpToDate([ReadBinlogCoordinates |-> PastCoordinates,
                                          ExecBinlogCoordinates |-> c])
                    THEN waiter' = WaitReturns(read, NoError)
                    ELSE IF waiter.SQLDelay # 0
                    THEN waiter' = WaitReturns(read,
                             <<"WaitForSQLThreadUpToDate: instance has SQL Delay">>)
                    ELSE \/ /\ waiter.now >= overallTimeout
                            /\ waiter' = WaitReturns(polled, ErrWaitTimeout)
                         \/ /\ waiter.now >= deadline
                            /\ waiter' = WaitReturns(polled, ErrWaitStaleCoordinates)
                         \/ /\ waiter.now < overallTimeout
                            /\ waiter.now < deadline
                            /\ waiter' = [polled EXCEPT !.pc = "sleeping"]
    /\ UNCHANGED <<execVars, semiVars, opsVars, fanVars>>

\* A round of WaitForExecBinlogCoordinatesToReach that takes coordinates past
\* the target for the target.
PollExecBinlogCoordinatesAtLeast ==
    /\ waiter.fn = "WaitForExecBinlogCoordinatesToReach"
    /\ waiter.pc = "polling"
    /\ IF waiter.timeout # 0 /\ waiter.now > waiter.timeout
       THEN waiter' = WaitReturns(waiter, ErrReachedMaxWait)
       ELSE \/ waiter' = WaitReturns(waiter, ReadFailedNil)
            \/ \E c \in ReadableCoordinates(waiter.exec) :
                   IF SmallerThan(c, TargetCoordinates)
                   THEN waiter' = [waiter EXCEPT !.exec = c, !.pc = "sleeping"]
                   ELSE waiter' = [WaitReturns(waiter, NoError) EXCEPT
                                       !.exec = c, !.exactMatch = TRUE]
    /\ UNCHANGED <<execVars, semiVars, opsVars, fanVars>>

\* lines 524-540: one round of WaitForExecBinlogCoordinatesToReach for
\* TargetCoordinates, up to its sleep
PollExecBinlogCoordinates ==
    /\ waiter.fn = "WaitForExecBinlogCoordinatesToReach"
    /\ waiter.pc = "polling"
    /\ IF waiter.timeout # 0 /\ waiter.now > waiter.timeout
       THEN waiter' = WaitReturns(waiter, ErrReachedMaxWait)
       ELSE \/ waiter' = WaitReturns(waiter, ReadFailedNil)
            \/ \E c \in ReadableCoordinates(waiter.exec) :
                   IF SmallerThan(c, TargetCoordinates)
                   THEN waiter' = [waiter EXCEPT !.exec = c, !.pc = "sleeping"]
                   ELSE waiter' = [WaitReturns(waiter, NoError) EXCEPT
                                       !.exec = c, !.exactMatch = (c = TargetCoordinates)]
    /\ UNCHANGED <<execVars, semiVars, opsVars, fanVars>>

\* lines 434-442: one round of waitForReplicationState, up to its sleep;
\* the error of expectReplicationThreadsState is dropped, a failed poll
\* counts as unmet
PollReplicationState ==
    /\ waiter.fn = "waitForReplicationState"
    /\ waiter.pc = "polling"
    /\ \E expectationMet \in BOOLEAN, took \in {0, 1} :
           IF expectationMet
           THEN waiter' = [WaitReturns(waiter, NoError) EXCEPT !.expectationMet = TRUE]
           ELSE IF Later(waiter.now, took) + waiter.interval > waitDuration
           THEN waiter' = [WaitReturns(waiter, NoError) EXCEPT !.now = Later(@, took)]
           ELSE waiter' = [waiter EXCEPT !.now = Later(@, took), !.pc = "sleeping"]
    /\ UNCHANGED <<execVars, semiVars, opsVars, fanVars>>

\* lines 361 and 535: time.Sleep(retryInterval); the sleep and the read
\* after it take a second or two. Lines 443-444: time.Sleep(waitInterval),
\* and the interval doubles.
WaitSleep ==
    /\ waiter.pc = "sleeping"
    /\ IF waiter.fn = "waitForReplicationState"
       THEN waiter' = [waiter EXCEPT !.now = Later(@, waiter.interval),
                                     !.interval = 2 * @, !.pc = "polling"]
       ELSE \E d \in {1, 2} :
                waiter' = [waiter EXCEPT !.now = Later(@, d), !.pc = "polling"]
    /\ UNCHANGED <<execVars, semiVars, opsVars, fanVars>>

WaitNext ==
    \/ PollSQLThreadUpToDate
    \/ PollExecBinlogCoordinates
    \/ PollReplicationState
    \/ WaitSleep

SpecWait == WaitInit /\ [][WaitNext]_vars

\* A wait that can take a round takes it.
SpecWaitFair == SpecWait /\ WF_vars(WaitNext)

\* C21: every polling wait eventually returns, whatever the reads show: the
\* instance need not reach the awaited state.
C21_EveryWaitReturns == <>(waiter.pc = "returned")

\* The time the wait allows itself has run out.
BudgetExhausted ==
    CASE waiter.fn = "WaitForSQLThreadUpToDate" ->
             \/ waiter.now >= (IF waiter.timeout = 0 THEN DefaultOverallTimeout
                               ELSE waiter.timeout)
             \/ waiter.now >= waiter.staleDeadline
      [] waiter.fn = "WaitForExecBinlogCoordinatesToReach" ->
             waiter.timeout # 0 /\ waiter.now > waiter.timeout
      [] OTHER -> waiter.now + waiter.interval > waitDuration

\* C22: a wait returns the error of a failed read only when its time has
\* run out: one failed read does not end the wait.
C22_ReadErrorOnlyAtTimeout ==
    (waiter # <<>> /\ waiter.pc = "returned" /\ waiter.err = ReadFailedNil)
        => BudgetExhausted

\* C23: StartReplicationUntilMasterCoordinates returns a nil error only if
\* the last poll of its wait showed executed coordinates equal to the target
\* and the stop statement after it went through, and the snapshot returned
\* then has both threads stopped at the target coordinates; when the first
\* poll not behind the target is past it, the call returns an error and
\* issues no stop.
C23_NilErrorOnlyAtExactTarget ==
    (call.op = "StartReplicationUntilMasterCoordinates" /\ Returned) =>
        LET n == Len(PollEvents)
            stops == {i \in DOMAIN ExecEvents : ExecEvents[i].stmt = "stop_slave"}
        IN  /\ world.err = NoError =>
                   /\ ~world.panic
                   /\ n > 0
                   /\ PollEvents[n].args[2] = call.masterCoordinates
                   /\ \A i \in 1..(n - 1) :
                          SmallerThan(PollEvents[i].args[2], call.masterCoordinates)
                   /\ stops # {}
                   /\ \A i \in stops : ExecEvents[i].err = NoError
                   /\ ReplicationThreadsStopped(world.instance)
                   /\ world.instance.ExecBinlogCoordinates = call.masterCoordinates
            /\ (n > 0 /\ SmallerThan(call.masterCoordinates, PollEvents[n].args[2])) =>
                   /\ world.err = ErrPastCoordinates
                   /\ stops = {}

\* C23 witness: the replica is behind at the first poll and at the target at
\* the second; the stop goes through and the call returns no error.
C23_Witness ==
    /\ call.op = "StartReplicationUntilMasterCoordinates"
    /\ Returned
    /\ world.err = NoError
    /\ Len(PollEvents) = 2
    /\ PollEvents[2].args[3]
    /\ ReplicationThreadsStopped(world.instance)

\* C24: an operation that returns an error returns an instance with it, not
\* nil, on every failure path. The failure of a read of the instance is left
\* out here: what ReadTopologyInstance hands back with its error is decided
\* outside this file.
C24_ErrorComesWithSnapshot ==
    (Returned /\ world.err # NoError /\ ~world.panic
              /\ ~Contains(world.err, ReadFailedNil[1])) =>
        world.instance # NilInstance

\* A statement failed and the failure is not one the operation is meant to
\* get over: Error 1199 of a stop on a MaxScale.
IsUnforgivenFailure(e) ==
    /\ e.ev = "exec"
    /\ e.err # NoError
    /\ ~(e.stmt = "stop_slave" /\ server.IsMaxScale /\ e.err = Error1199)

\* C25: no partial mutation is left unreported. A call one of whose
\* statements failed returns an error (ChangeMasterTo and ResetReplication,
\* which retry a statement once, are left aside), and StopReplicationNicely
\* that ends with
\* the IO thread stopped and the SQL thread started but without the stop of
\* both returns an error.
C25_PartialMutationReported ==
    (Returned /\ ~world.panic) =>
        /\ (call.op \notin {"ChangeMasterTo", "ResetReplication"}
            /\ SelectSeq(world.log, IsUnforgivenFailure) # <<>>)
               => world.err # NoError
        /\ (call.op = "StopReplicationNicely" /\ Len(Statements) \in {1, 2})
               => world.err # NoError

\* The statements of the skip step of SkipQuery, in the order issued.
IsSkipStatement(e) ==
    /\ e.ev = "exec"
    /\ e.stmt \in {"set_gtid_next", "begin_commit", "set_gtid_next_automatic",
                   "set_sql_slave_skip_counter"}

SkipStatements == SelectSeq(world.log, IsSkipStatement)

OracleGtidSkip == <<"set_gtid_next", "begin_commit", "set_gtid_next_automatic">>

\* C26: SkipQuery executes a statement only on a replica whose SQL thread is
\* stopped and which has a last SQL error recorded. A snapshot with Oracle
\* GTID gets SET GTID_NEXT to its next GTID, the empty commit and SET
\* GTID_NEXT AUTOMATIC, in this order, whether or not it also shows MariaDB
\* GTID; one with MariaDB GTID only gets no statement and the guidance
\* error; any other gets the skip counter.
C26_SkipQueryDispatch ==
    call.op = "SkipQuery" =>
        /\ Statements # <<>> =>
               /\ server.MasterKey # NoKey
               /\ server.ReplicationSQLThreadState # ReplicationThreadStateRunning
               /\ server.LastSQLError # ""
        /\ \E k \in 0..3 :
               /\ Len(SkipStatements) = k
               /\ \A i \in 1..k :
                      SkipStatements[i].stmt =
                          (IF server.UsingOracleGTID THEN OracleGtidSkip[i]
                           ELSE "set_sql_slave_skip_counter")
               /\ (k > 0 /\ ~server.UsingOracleGTID) => k = 1 /\ ~server.UsingMariaDBGTID
               /\ (k > 0 /\ server.UsingOracleGTID) =>
                      SkipStatements[1].args = <<server.NextGTID>>
               /\ \A i \in 1..(k - 1) : SkipStatements[i].err = NoError
        /\ (server.UsingMariaDBGTID /\ ~server.UsingOracleGTID) =>
               /\ Statements = <<>>
               /\ (Returned /\ world.err \notin {NoError, ErrNotAReplica, ErrSQLThreadRunning,
                                                  ErrNoSQLError, ErrNoop,
                                                  ReadFailedNil, ReadFailedPartial})
                      => world.err = ErrMariaDBGTIDSkip
        /\ (Returned /\ world.err = ErrMariaDBGTIDSkip) =>
               server.UsingMariaDBGTID /\ ~server.UsingOracleGTID /\ ~Noop

\* C26 witness: a replica stopped on an SQL error, with Oracle GTID, has been
\* taken through the three statements and the call has returned.
C26_Witness ==
    /\ call.op = "SkipQuery"
    /\ Returned
    /\ server.UsingOracleGTID
    /\ Len(SkipStatements) = 3
    /\ SkipStatements[3].err = NoError

\* SkipQuery has gone on to StartReplication.
RestartEvents == SelectSeq(world.log, LAMBDA e : e.ev = "call")

\* The skip step of SkipQuery went through: all its statements did.
SkipStepSucceeded ==
    /\ Len(SkipStatements) = (IF server.UsingOracleGTID THEN 3 ELSE 1)
    /\ SkipStatements[Len(SkipStatements)].err = NoError

\* C27: SkipQuery goes on to StartReplication exactly when its skip step
\* went through, which takes the preconditions met, no dry run and a dialect
\* that is supported; it then returns what StartReplication returns, called
\* on the instance with the answers that follow the skip step.
C27_RestartAfterSkip ==
    call.op = "SkipQuery" =>
        /\ Len(RestartEvents) = (IF SkipStepSucceeded THEN 1 ELSE 0)
        /\ RestartEvents # <<>> =>
               /\ ~Noop
               /\ server.MasterKey # NoKey
               /\ server.ReplicationSQLThreadState # ReplicationThreadStateRunning
               /\ server.LastSQLError # ""
               /\ server.UsingOracleGTID \/ ~server.UsingMariaDBGTID
        /\ (RestartEvents # <<>> /\ Returned) =>
               LET first == 2 + Len(SkipStatements)
                   restart == StartReplication(
                                  NewWorld(server, Noop, Config,
                                           SubSeq(answers, first, Len(answers))))
               IN  /\ restart.pending = NoInteraction
                   /\ world.instance = restart.instance
                   /\ world.err = restart.err
                   /\ world.panic = restart.panic

\* C27 witness: the skip counter was set, replication was started again and
\* runs.
C27_Witness ==
    /\ call.op = "SkipQuery"
    /\ Returned
    /\ ~server.UsingOracleGTID
    /\ Len(RestartEvents) = 1
    /\ world.err = NoError
    /\ ReplicaRunning(world.instance)

(***************************************************************************)
(* StopReplicas, StartReplicas, RefreshTopologyInstances                   *)
(***************************************************************************)

\* StopReplicationMethod
NoStopReplication == "NoStopReplication"

StopReplicationMethods == {NoStopReplication, "StopReplicationNormal", "StopReplicationNice"}

\* The caller has one goroutine per replica: replica i of the list is the
\* business of task i, which calls ExecuteOnTopology.
FanInit ==
    /\ fanout \in [op : {"StopReplicas", "StartReplicas", "RefreshTopologyInstances"},
                   stopReplicationMethod : StopReplicationMethods,
                   n : 0..NumTasks, spawned : {0}, barrier : {<<>>}, pc : {"called"}]
    /\ fanout.op # "StopReplicas" => fanout.stopReplicationMethod = NoStopReplication
    /\ topologyConcurrencyChan = NewChan
    /\ tpc = [t \in Tasks |-> "unspawned"]
    /\ panicked = [t \in Tasks |-> FALSE]
    /\ SemiIdle
    /\ OpsIdle
    /\ WaitIdle

\* lines 367-369: StopReplicas asked not to stop hands its list back
FanReturnsList ==
    /\ fanout.pc = "called"
    /\ fanout.op = "StopReplicas"
    /\ fanout.stopReplicationMethod = NoStopReplication
    /\ fanout' = [fanout EXCEPT !.pc = "returned",
                                !.barrier = [i \in 1..fanout.n |->
                                                 [replica |-> i, instance |-> "given"]]]
    /\ UNCHANGED <<execVars, semiVars, opsVars, waitVars>>

\* lines 376-390, 124-135, 508-516: the loop that starts a goroutine for
\* each replica, then goes on to the barrier
FanSpawn ==
    /\ fanout.pc \in {"called", "spawning"}
    /\ ~(fanout.op = "StopReplicas" /\ fanout.stopReplicationMethod = NoStopReplication)
    /\ IF fanout.spawned < fanout.n
       THEN /\ fanout' = [fanout EXCEPT !.pc = "spawning", !.spawned = @ + 1]
            /\ tpc' = [tpc EXCEPT ![fanout.spawned + 1] = "start"]
       ELSE /\ fanout' = [fanout EXCEPT !.pc = "receiving"]
            /\ UNCHANGED tpc
    /\ UNCHANGED <<topologyConcurrencyChan, panicked, semiVars, opsVars, waitVars>>

\* Every task but one has delivered.
AllButOneDelivered(barrier, n) == Len(barrier) >= n - 1

\* lines 392-394, 136-138, 517-519: for range replicas { <-barrier } has
\* received from each
AllDelivered(barrier, n) == Len(barrier) = n

\* lines 380, 128, 512 with 393, 137, 518: the deferred send of a task whose
\* ExecuteOnTopology has returned meets a receive of the caller. What
\* StopReplicas receives is *updatedReplica: what StopReplication returned,
\* a snapshot or nil, or the replica as given if the function panicked
\* before line 387.
FanDeliver(t) ==
    /\ tpc[t] = "done"
    /\ fanout.pc = "receiving"
    /\ ~AllDelivered(fanout.barrier, fanout.n)
    /\ \E instance \in (IF panicked[t] \/ fanout.op # "StopReplicas"
                        THEN {"given"} ELSE {"refreshed", "nil"}) :
           fanout' = [fanout EXCEPT !.barrier =
                         Append(@, [replica |-> t, instance |-> instance])]
    /\ tpc' = [tpc EXCEPT ![t] = "signalled"]
    /\ UNCHANGED <<topologyConcurrencyChan, panicked, semiVars, opsVars, waitVars>>

\* lines 396, 139, 520
FanReturns ==
    /\ fanout.pc = "receiving"
    /\ AllDelivered(fanout.barrier, fanout.n)
    /\ fanout' = [fanout EXCEPT !.pc = "returned"]
    /\ UNCHANGED <<execVars, semiVars, opsVars, waitVars>>

FanNext ==
    \/ FanReturnsList
    \/ FanSpawn
    \/ \E t \in Tasks : Acquire(t)
    \/ \E t \in Tasks : FReturns(t)
    \/ \E t \in Tasks : FPanics(t)
    \/ \E t \in Tasks : Release(t)
    \/ \E t \in Tasks : FanDeliver(t)
    \/ FanReturns

SpecFanOut == FanInit /\ [][FanNext]_vars

\* The caller and the goroutines take the steps they can take; the
\* per-instance operation inside ExecuteOnTopology ends, by returning or by
\* panicking.
SpecFanOutFair == SpecFanOut /\ WF_vars(FanNext)

\* The tasks started for the replicas of the list.
FanTasks == 1..fanout.n

\* C28: StopReplicas told to stop, StartReplicas and RefreshTopologyInstances
\* return only when each replica's task has signalled, each replica having
\* been the business of one task that ran once; what StopReplicas returns
\* holds one entry per replica; and they do return, with more replicas than
\* tokens and with operations that panic.
C28_ReturnsAfterEveryTask ==
    /\ [](fanout.pc = "returned"
            => /\ Len(fanout.barrier) = fanout.n
               /\ {fanout.barrier[i].replica : i \in DOMAIN fanout.barrier} = FanTasks
               /\ (fanout.op = "StopReplicas"
                   /\ fanout.stopReplicationMethod = NoStopReplication)
                  \/ /\ \A t \in FanTasks : tpc[t] = "signalled"
                     /\ \A t \in Tasks \ FanTasks : tpc[t] = "unspawned"
                     /\ topologyConcurrencyChan = NewChan)
    /\ <>(fanout.pc = "returned")

\* C28 witness: StopReplicas has returned for more replicas than the pool
\* has tokens, two of whose operations panicked.
C28_Witness ==
    /\ fanout # <<>>
    /\ fanout.op = "StopReplicas"
    /\ fanout.pc = "returned"
    /\ fanout.n > topologyConcurrency
    /\ Cardinality({t \in FanTasks : panicked[t]}) >= 2
    /\ \E i \in DOMAIN fanout.barrier : fanout.barrier[i].instance = "refreshed"

\* What AnalyzeSemiSyncReplicaTopology is to return for a master and a list
\* of replicas read.
ExpectedAnalysis(master, list) ==
    Analysis(master, ReplicasRead(world, list),
             classifyAndPrioritizeReplicas(ReplicasRead(world, list),
                                           call.includeNonReplicatingInstance),
             call.exactReplicaTopology)

\* C29: AnalyzeSemiSyncReplicaTopology only reads: it executes no statement
\* and leaves the server as it is. It reads the master, then the master's
\* replicas live, and the backend's list only if the live read failed; it
\* returns the actions computed from the master and the list it got, and an
\* error with no actions when the master read or both reads of the replicas
\* failed.
C29_AnalyzeOnlyReads ==
    call.op = "AnalyzeSemiSyncReplicaTopology" =>
        /\ world.log = <<>>
        /\ world.server = server
        /\ Returned =>
               /\ Len(answers) \in 1..3
               /\ Len(answers) = 1 <=> answers[1].err # NoError
               /\ Len(answers) = 3 <=> (answers[1].err = NoError /\ answers[2].err # NoError)
               /\ LET list == answers[Len(answers)] IN
                  IF list.err # NoError
                  THEN world.err # NoError /\ world.analysis = <<>>
                  ELSE /\ world.err = NoError
                       /\ world.analysis = ExpectedAnalysis(answers[1].val, list.val)

\* C29 witness: the live read of the replicas failed, the backend's list
\* was used, and the actions include one for a replica.
C29_Witness ==
    /\ call.op = "AnalyzeSemiSyncReplicaTopology"
    /\ Returned
    /\ Len(answers) = 3
    /\ world.err = NoError
    /\ world.analysis.actions # EmptyMap

\* The operations that look at the dry-run flag.
DryRunOperations ==
    {"ChangeMasterTo", "ChangeMasterCredentials", "ResetReplication", "ResetMaster",
     "SkipQuery", "EnableMasterSSL"}

\* The preconditions of the call hold on the server it is made on; for
\* ChangeMasterTo the master's hostname is unresolved without an error.
PreconditionsMet ==
    CASE call.op = "SkipQuery" ->
             /\ server.MasterKey # NoKey
             /\ server.ReplicationSQLThreadState # ReplicationThreadStateRunning
             /\ server.LastSQLError # ""
      [] call.op = "ChangeMasterCredentials" ->
             call.creds.User # "" /\ ~ThreadsNotStopped(Snapshot(server))
      [] call.op = "ChangeMasterTo" ->
             /\ ~ThreadsNotStopped(Snapshot(server))
             /\ call.skipUnresolve \/ (Len(answers) >= 2 /\ answers[2].err = NoError)
      [] OTHER -> ~ThreadsNotStopped(Snapshot(server))

\* C30: in a dry run, an operation that looks at the flag executes no
\* statement and returns an error; if its read succeeded and its
\* preconditions hold, the error is the noop error and the instance is the
\* snapshot read; if a precondition is violated the error is that
\* precondition's, not the noop error.
C30_DryRunAfterPreconditions ==
    (call.op \in DryRunOperations /\ Noop /\ Returned) =>
        /\ world.log = <<>>
        /\ world.server = server
        /\ world.err # NoError
        /\ answers[1].err = NoError =>
               IF PreconditionsMet
               THEN world.err = ErrNoop /\ world.instance = Snapshot(server)
               ELSE /\ world.err # ErrNoop
                    /\ world.instance = Snapshot(server)
                    /\ \/ world.err \in PreconditionErrors(call.op)
                       \/ call.op = "ChangeMasterTo" /\ world.err = answers[2].err

\* C30 witness: a dry run of ChangeMasterCredentials on a stopped replica,
\* with a user given, has returned the noop error.
C30_Witness ==
    /\ call.op = "ChangeMasterCredentials"
    /\ Noop
    /\ Returned
    /\ server.MasterKey # NoKey
    /\ world.err = ErrNoop
    /\ world.instance = Snapshot(server)

\* The wait is WaitForExecBinlogCoordinatesToReach, for TargetCoordinates.
WaitsForTarget == waiter.fn = "WaitForExecBinlogCoordinatesToReach"

\* C31: WaitForExecBinlogCoordinatesToReach sleeps and polls again while the
\* coordinates polled are smaller than the target, and returns at the first
\* poll that shows them not smaller: exactMatch = TRUE and no error if they
\* equal the target, exactMatch = FALSE and no error if they are greater.
\* exactMatch = TRUE never comes with an error, and with maxWait > 0 the
\* round that starts after maxWait has elapsed returns the maxWait error.
C31_ThreeWayOutcome ==
    /\ [](WaitsForTarget =>
            /\ waiter.pc = "sleeping" => SmallerThan(waiter.exec, TargetCoordinates)
            /\ (waiter.pc = "returned" /\ waiter.err = NoError) =>
                   /\ ~SmallerThan(waiter.exec, TargetCoordinates)
                   /\ waiter.exactMatch <=> waiter.exec = TargetCoordinates
                   /\ ~waiter.exactMatch <=> SmallerThan(TargetCoordinates, waiter.exec)
            /\ (waiter.pc = "returned" /\ SmallerThan(waiter.exec, TargetCoordinates)) =>
                   waiter.err # NoError
            /\ waiter.err # NoError => ~waiter.exactMatch)
    /\ [][(/\ WaitsForTarget
            /\ waiter.pc = "polling"
            /\ waiter.timeout # 0
            /\ waiter.now > waiter.timeout)
               => (waiter'.pc = "returned" /\ waiter'.err = ErrReachedMaxWait)]_vars
    /\ [][(/\ WaitsForTarget
            /\ waiter.pc = "polling"
            /\ waiter'.pc = "returned"
            /\ waiter'.err = NoError)
               => ~SmallerThan(waiter'.exec, TargetCoordinates)]_vars

\* C31 witness: after a poll behind the target and a sleep, a poll past the
\* target has returned exactMatch = FALSE without an error.
C31_Witness ==
    /\ WaitsForTarget
    /\ waiter.pc = "returned"
    /\ waiter.now > 0
    /\ waiter.err = NoError
    /\ waiter.exec = PastCoordinates
    /\ ~waiter.exactMatch

\* The calls of ChangeMasterTo that SkipToNextBinaryLog made, what they
\* returned, and the calls of StartReplication.
ChangeMasterCalls ==
    SelectSeq(world.log, LAMBDA e : e.ev = "call" /\ e.stmt = "ChangeMasterTo")

ChangeMasterReturns ==
    SelectSeq(world.log, LAMBDA e : e.ev = "return" /\ e.stmt = "ChangeMasterTo")

StartReplicationCalls ==
    SelectSeq(world.log, LAMBDA e : e.ev = "call" /\ e.stmt = "StartReplication")

\* C32: SkipToNextBinaryLog calls ChangeMasterTo at most once, with the
\* master key of the instance, the file after the executed one at position
\* 4, the hostname unresolved and the hint Neutral; it calls StartReplication
\* only after ChangeMasterTo returned no error; when there is no next file
\* or ChangeMasterTo returned an error it calls no StartReplication and
\* returns that error.
C32_SkipToNextBinaryLog ==
    call.op = "SkipToNextBinaryLog" =>
        /\ Len(ChangeMasterCalls) <= 1
        /\ \A i \in DOMAIN ChangeMasterCalls :
               ChangeMasterCalls[i].args =
                   <<server.MasterKey,
                     [LogFile |-> server.ExecBinlogCoordinates.LogFile + 1, LogPos |-> 4],
                     FALSE, GTIDHintNeutral>>
        /\ Len(StartReplicationCalls) <= 1
        /\ StartReplicationCalls # <<>> =>
               /\ Len(ChangeMasterReturns) = 1
               /\ ChangeMasterReturns[1].err = NoError
               /\ Len(ChangeMasterExecs) >= 1
               /\ ChangeMasterExecs[Len(ChangeMasterExecs)].err = NoError
               /\ ~Noop
        /\ (ChangeMasterReturns # <<>> /\ ChangeMasterReturns[1].err # NoError) =>
               /\ StartReplicationCalls = <<>>
               /\ Returned
               /\ world.err = ChangeMasterReturns[1].err
               /\ "start_slave" \notin SeqRange(Statements)
        /\ (Returned /\ answers[1].err = NoError
                /\ server.ExecBinlogCoordinates.LogFile = 0) =>
               /\ world.err = ErrNextFile
               /\ world.log = <<>>
        /\ (ChangeMasterCalls # <<>>) => server.ExecBinlogCoordinates.LogFile # 0

\* C32 witness: the master was changed to the start of the next file and
\* replication was started.
C32_Witness ==
    /\ call.op = "SkipToNextBinaryLog"
    /\ Returned
    /\ Len(ChangeMasterCalls) = 1
    /\ ChangeMasterCalls[1].args[2] = [LogFile |-> 2, LogPos |-> 4]
    /\ Len(StartReplicationCalls) = 1
    /\ "start_slave" \in SeqRange(Statements)

(***************************************************************************)
(* StopReplicas: what the function of each replica does                    *)
(***************************************************************************)

\* line 383: the replica is stopped nicely first
WantsNiceStopOfAny(stopReplicationMethod, isMariaDB) == ~isMariaDB

WantsNiceStop(stopReplicationMethod, isMariaDB) ==
    stopReplicationMethod = "StopReplicationNice" /\ ~isMariaDB

\* StopReplicas is called for up to MaxReplicas replicas, the first of which
\* is a MariaDB server or not.
StopInit ==
    /\ fanout \in [op : {"StopReplicas"}, stopReplicationMethod : StopReplicationMethods,
                   n : 0..MaxReplicas, spawned : {0}, barrier : {<<>>}, pc : {"called"},
                   MariaDB : {{}, {1}}, calls : {[t \in Tasks |-> <<>>]}]
    /\ topologyConcurrencyChan = NewChan
    /\ tpc = [t \in Tasks |-> "unspawned"]
    /\ panicked = [t \in Tasks |-> FALSE]
    /\ SemiIdle
    /\ OpsIdle
    /\ WaitIdle

\* lines 383-385: StopReplicationNicely(&replica.Key, timeout), its results
\* dropped
FStopsNicely(t) ==
    /\ tpc[t] = "f"
    /\ fanout.calls[t] = <<>>
    /\ WantsNiceStop(fanout.stopReplicationMethod, t \in fanout.MariaDB)
    /\ fanout' = [fanout EXCEPT !.calls[t] = Append(@, "StopReplicationNicely")]
    /\ UNCHANGED <<execVars, semiVars, opsVars, waitVars>>

\* line 386: replica, _ = StopReplication(&replica.Key)
FStops(t) ==
    /\ tpc[t] = "f"
    /\ IF WantsNiceStop(fanout.stopReplicationMethod, t \in fanout.MariaDB)
       THEN fanout.calls[t] = <<"StopReplicationNicely">>
       ELSE fanout.calls[t] = <<>>
    /\ fanout' = [fanout EXCEPT !.calls[t] = Append(@, "StopReplication")]
    /\ UNCHANGED <<execVars, semiVars, opsVars, waitVars>>

\* line 387-388: the function has stopped the replica and returns
FStopped(t) ==
    /\ fanout.calls[t] # <<>>
    /\ fanout.calls[t][Len(fanout.calls[t])] = "StopReplication"
    /\ FReturns(t)

StopNext ==
    \/ FanReturnsList
    \/ FanSpawn
    \/ \E t \in Tasks : Acquire(t)
    \/ \E t \in Tasks : FStopsNicely(t)
    \/ \E t \in Tasks : FStops(t)
    \/ \E t \in Tasks : FStopped(t)
    \/ \E t \in Tasks : FPanics(t)
    \/ \E t \in Tasks : Release(t)
    \/ \E t \in Tasks : FanDeliver(t)
    \/ FanReturns

SpecStopReplicas == StopInit /\ [][StopNext]_vars

\* The replicas whose function ran to its end.
Stopped == {t \in FanTasks : tpc[t] \in {"defer", "done", "signalled"} /\ ~panicked[t]}

\* Every call of a function is made while it holds the token of its one
\* admission.
CallsWithinAdmission ==
    [][\A t \in Tasks :
           fanout.calls[t]' # fanout.calls[t] => tpc[t] = "f" /\ tpc'[t] = "f"]_vars

\* With NoStopReplication nothing is started and the list comes back as given.
NoStopDoesNothing ==
    fanout.stopReplicationMethod = NoStopReplication =>
        /\ topologyConcurrencyChan = NewChan
        /\ \A t \in Tasks : tpc[t] = "unspawned" /\ fanout.calls[t] = <<>>
        /\ fanout.pc = "returned" =>
               fanout.barrier = [i \in 1..fanout.n |-> [replica |-> i, instance |-> "given"]]

SemiSyncReplicaEntries ==
    {i \in DOMAIN world.log :
        world.log[i].ev = "call" /\ world.log[i].stmt = "SetSemiSyncReplica"}

FirstEntry == CHOOSE i \in SemiSyncReplicaEntries : \A j \in SemiSyncReplicaEntries : i <= j

LastEntry == CHOOSE i \in SemiSyncReplicaEntries : \A j \in SemiSyncReplicaEntries : j <= i

FirstCallExecs ==
    IF SemiSyncReplicaEntries = {} THEN <<>>
    ELSE SelectSeq(SubSeq(world.log, FirstEntry + 1,
                          IF LastEntry > FirstEntry THEN LastEntry - 1 ELSE Len(world.log)),
                   IsExec)

SecondCallExecs ==
    IF Cardinality(SemiSyncReplicaEntries) < 2 THEN <<>>
    ELSE SelectSeq(SubSeq(world.log, LastEntry + 1, Len(world.log)), IsExec)

\* The statements of a call that finds the flag at another value, as far as
\* the call has come: the flag, then stop and start of the IO thread if it
\* was running at entry.
IsSemiSyncReplicaChange(execs) ==
    /\ Len(execs) <= (IF server.ReplicationIOThreadState = ReplicationThreadStateRunning
                      THEN 3 ELSE 1)
    /\ \A i \in DOMAIN execs :
           /\ execs[i].stmt = <<"set_rpl_semi_sync_slave_enabled", "stop_slave_io_thread",
                                "start_slave_io_thread">>[i]
           /\ i = 1 => execs[i].args = <<call.enableReplica>>
    /\ Len(execs) > 1 => execs[1].err = NoError

Queries == SelectSeq(world.log, LAMBDA e : e.ev = "query")

FallbackRead == \E i \in DOMAIN Queries : Queries[i].stmt = "mysql.slave_master_info"

\* The configured query failed: the connection or the query itself.
CredentialsQueryFailed ==
    /\ Config.ReplicationCredentialsQuery # ""
    /\ \/ answers[1].err # NoError
       \/ Len(answers) >= 2 /\ answers[2].err # NoError

\* The configured query answered a user that is not blank.
CredentialsQueryGaveUser ==
    /\ Config.ReplicationCredentialsQuery # ""
    /\ answers[1].err = NoError
    /\ Len(answers) >= 2
    /\ answers[2].err = NoError
    /\ CredentialsOfRow(answers[2].val).User # ""

\* C35: ReadReplicationCredentials never returns a blank user without an
\* error; a configured query that yields a user that is not blank gives the
\* credentials returned; when the query is not configured, fails or yields a
\* blank user, the fallback table is read, and a blank user there is an
\* error.
C35_BlankUserIsError ==
    (call.op = "ReadReplicationCredentials" /\ Returned) =>
        /\ world.err = NoError => world.instance.User # ""
        /\ CredentialsQueryGaveUser =>
               /\ world.err = NoError
               /\ world.instance = CredentialsOfRow(answers[2].val)
               /\ ~FallbackRead
        /\ ~CredentialsQueryGaveUser => FallbackRead
        /\ (FallbackRead /\ answers[Len(answers)].err = NoError
                /\ answers[Len(answers)].val[1] = "") => world.err = ErrEmptyUserFound

\* The master-change statements that name a log file and a position, and
\* those that keep or turn on GTID.
ExplicitPositionStatements ==
    {"change_master_to_master_host_port_log_gtid_no",
     "change_master_to_master_host_port_log_autoposition_no",
     "change_master_to_master_host_port_log"}

GTIDStatements == ChangeMasterStatements \ ExplicitPositionStatements

\* C36: ChangeMasterTo with the hint Deny executes no statement that keeps
\* or turns on GTID, whatever the dialect flags of the instance: its
\* master-change statement is the GTID-off form for MariaDB GTID, the
\* autoposition-off form for Oracle GTID, the plain form otherwise, each with
\* the log file and position given; no GTID flag of the instance is turned
\* on, and a change that went through has turned off the GTID the
\* statement was chosen for.
C36_DenyNeverUsesGTID ==
    (call.op = "ChangeMasterTo" /\ call.gtidHint = GTIDHintDeny) =>
        /\ \A i \in DOMAIN ExecEvents : ExecEvents[i].stmt \notin GTIDStatements
        /\ \A i \in DOMAIN ChangeMasterExecs :
               /\ ChangeMasterExecs[i].stmt =
                      (IF server.UsingMariaDBGTID
                       THEN "change_master_to_master_host_port_log_gtid_no"
                       ELSE IF server.UsingOracleGTID
                       THEN "change_master_to_master_host_port_log_autoposition_no"
                       ELSE "change_master_to_master_host_port_log")
               /\ Len(ChangeMasterExecs[i].args) = 4
               /\ ChangeMasterExecs[i].args[3] = call.masterBinlogCoordinates.LogFile
               /\ ChangeMasterExecs[i].args[4] = call.masterBinlogCoordinates.LogPos
        /\ world.server.UsingMariaDBGTID => server.UsingMariaDBGTID
        /\ world.server.UsingOracleGTID => server.UsingOracleGTID
        /\ (Returned /\ world.err = NoError) =>
               /\ ChangeMasterExecs # <<>>
               /\ ~world.server.UsingMariaDBGTID
               /\ ~server.UsingMariaDBGTID => ~world.server.UsingOracleGTID

\* C36 witness: an instance with both GTID flags set, able to turn on Oracle
\* GTID, was repointed under Deny with the MariaDB GTID-off statement.
C36_Witness ==
    /\ call.op = "ChangeMasterTo"
    /\ call.gtidHint = GTIDHintDeny
    /\ Returned
    /\ world.err = NoError
    /\ server.UsingMariaDBGTID
    /\ server.UsingOracleGTID
    /\ server.SupportsOracleGTID
    /\ Len(ChangeMasterExecs) = 1
    /\ ChangeMasterExecs[1].stmt = "change_master_to_master_host_port_log_gtid_no"

\* Where among the statements executed the master-side semi-sync switch and
\* read_only are set.
SemiSyncMasterSets ==
    {i \in DOMAIN ExecEvents : ExecEvents[i].stmt = "set_rpl_semi_sync_master_enabled"}

ReadOnlySets == {i \in DOMAIN ExecEvents : ExecEvents[i].stmt = "set_read_only"}

\* C37: SetReadOnly on an instance of semi-sync priority > 0, making it
\* writable, turns the master-side switch on before it clears read_only, and
\* executes no read_only statement if SetSemiSyncMaster returned an error;
\* making it read-only, it turns the switch off only after read_only was
\* set and the instance read again. On an instance of priority 0 it
\* executes no statement on the switch.
C37_SemiSyncAroundReadOnly ==
    call.op = "SetReadOnly" =>
        /\ Cardinality(SemiSyncMasterSets) <= 1
        /\ Cardinality(ReadOnlySets) <= 1
        /\ \A j \in ReadOnlySets : ExecEvents[j].args = <<call.readOnly>>
        /\ server.SemiSyncPriority = 0 => SemiSyncMasterSets = {}
        /\ (server.SemiSyncPriority > 0 /\ ~call.readOnly) =>
               /\ \A i \in SemiSyncMasterSets : i = 1 /\ ExecEvents[i].args = <<TRUE>>
               /\ \A j \in ReadOnlySets :
                      /\ j = 2
                      /\ ExecEvents[1].stmt = "set_rpl_semi_sync_master_enabled"
                      /\ ExecEvents[1].err = NoError
                      /\ \A k \in 1..4 : answers[k].err = NoError
                      /\ world.server.SemiSyncMasterEnabled
        /\ (server.SemiSyncPriority > 0 /\ call.readOnly) =>
               \A i \in SemiSyncMasterSets :
                   /\ ExecEvents[i].args = <<FALSE>>
                   /\ ExecEvents[1].stmt = "set_read_only"
                   /\ ExecEvents[1].err = NoError
                   /\ i = Len(ExecEvents)
                   /\ i = (IF Config.UseSuperReadOnly THEN 3 ELSE 2)
        /\ (Returned /\ world.err = NoError /\ server.SemiSyncPriority > 0) =>
               /\ Cardinality(SemiSyncMasterSets) = 1
               /\ Cardinality(ReadOnlySets) = 1
               /\ world.server.SemiSyncMasterEnabled = ~call.readOnly

\* C37 witness: an instance of priority 1 was made writable, the switch
\* turned on first.
C37_Witness ==
    /\ call.op = "SetReadOnly"
    /\ ~call.readOnly
    /\ server.SemiSyncPriority > 0
    /\ ~server.SemiSyncMasterEnabled
    /\ Returned
    /\ world.err = NoError
    /\ SemiSyncMasterSets = {1}
    /\ ReadOnlySets = {2}

\* The caller starts a task for each replica: it is not StopReplicas asked
\* not to stop.
Stopping == ~(fanout.op = "StopReplicas" /\ fanout.stopReplicationMethod = NoStopReplication)

\* How many times the caller received the signal of task t.
Signals(t) == Cardinality({i \in DOMAIN fanout.barrier : fanout.barrier[i].replica = t})

\* The tasks whose per-instance operation panicked.
Panicked == {t \in FanTasks : panicked[t]}

\* C38: a panic of the function passed to ExecuteOnTopology never leaves
\* ExecuteOnTopology, which returns normally; in StopReplicas, StartReplicas
\* and RefreshTopologyInstances the task of a panicking operation signals
\* exactly once, the panic changes nothing of the other tasks, and the
\* caller receives one signal from each task and returns.
C38_PanicSwallowed ==
    /\ []((fanout # <<>> /\ Stopping) =>
             /\ \A t \in Tasks : tpc[t] # "panicking"
             /\ \A t \in FanTasks :
                    /\ Signals(t) = (IF tpc[t] = "signalled" THEN 1 ELSE 0)
                    /\ panicked[t] => tpc[t] \in {"defer", "done", "signalled"}
             /\ (fanout.pc = "returned" /\ Panicked # {}) =>
                    /\ \A t \in FanTasks : Signals(t) = 1
                    /\ Len(fanout.barrier) = fanout.n)
    /\ [][\A t \in Tasks :
             (panicked'[t] /\ ~panicked[t]) =>
                 /\ \A u \in Tasks \ {t} : tpc'[u] = tpc[u] /\ panicked'[u] = panicked[u]
                 /\ topologyConcurrencyChan' = topologyConcurrencyChan
                 /\ fanout' = fanout]_vars
    /\ [][\A t \in Tasks :
             (panicked[t] /\ tpc[t] = "defer" /\ tpc'[t] # "defer") =>
                 /\ tpc'[t] = "done"
                 /\ Len(topologyConcurrencyChan') = Len(topologyConcurrencyChan) - 1]_vars
    /\ <>(fanout.pc = "returned")

\* C38 witness: StartReplicas has returned for a list one of whose
\* StartReplication panicked, each task having signalled.
C38_Witness ==
    /\ fanout # <<>>
    /\ fanout.op = "StartReplicas"
    /\ fanout.pc = "returned"
    /\ fanout.n >= 2
    /\ Cardinality(Panicked) = 1
    /\ \A t \in FanTasks : tpc[t] = "signalled" /\ Signals(t) = 1

\* The calls of SetSemiSyncReplica that MaybeEnableSemiSyncReplica made for
\* an entry of the action map.
Applied == SelectSeq(world.log, LAMBDA e : e.ev = "apply")

\* The entries the action map computed has for the given replica.
ActionsForGiven ==
    IF DOMAIN world.analysis = {} THEN {}
    ELSE {i \in DOMAIN world.analysis.actions :
              KeyEquals(world.analysis.replicas[i].Key, server.Key)}

SemiSyncReplicaStatements ==
    {"set_rpl_semi_sync_slave_enabled", "stop_slave_io_thread", "start_slave_io_thread"}

\* C39: under the non-legacy policy StartReplication, through
\* MaybeEnableSemiSyncReplica, calls SetSemiSyncReplica at most once, for
\* the given replica and with the value the action map has for it, whatever
\* the map has for other replicas of the master; when the map has no entry
\* for the given replica it executes no statement on the ack flag or the IO
\* thread and leaves the flag as it was.
C39_OnlyTheGivenReplica ==
    (call.op = "StartReplication" /\ Config # LegacyConfig) =>
        /\ Len(Applied) <= 1
        /\ Len(SetSemiSyncReplicaExecs) <= Len(Applied)
        /\ \A i \in DOMAIN Applied :
               /\ KeyEquals(Applied[i].args[1], server.Key)
               /\ ActionsForGiven # {}
               /\ \A j \in ActionsForGiven : Applied[i].args[2] = world.analysis.actions[j]
        /\ \A i \in DOMAIN SetSemiSyncReplicaExecs :
               SetSemiSyncReplicaExecs[i].args = <<Applied[1].args[2]>>
        /\ (Returned /\ ActionsForGiven = {}) => Applied = <<>>
        /\ Applied = <<>> =>
               /\ \A i \in DOMAIN ExecEvents : ExecEvents[i].stmt \notin SemiSyncReplicaStatements
               /\ world.server.SemiSyncReplicaEnabled = server.SemiSyncReplicaEnabled

\* C39 witness: the action map enables another replica of the master and
\* has no entry for the given one; StartReplication set no ack flag and
\* started replication.
C39_Witness ==
    /\ call.op = "StartReplication"
    /\ Config # LegacyConfig
    /\ Returned
    /\ world.err = NoError
    /\ DOMAIN world.analysis # {}
    /\ world.analysis.actions # EmptyMap
    /\ ActionsForGiven = {}
    /\ Applied = <<>>
    /\ \E i \in DOMAIN ExecEvents : ExecEvents[i].stmt = "start_slave"

(***************************************************************************)
(* WaitForSQLThreadUpToDate and its timers, step by step                   *)
(***************************************************************************)

\* time.NewTimer: the timer runs; C is what its channel holds
NewTimer == [state |-> "running", C |-> 0]

TimerNames == {"generalTimer", "staleTimer"}

\* staleTimer.Stop() as the build's runtime has it. Before Go 1.23 it
\* returns false once the timer has expired, and leaves what the timer sends
\* in the channel; from Go 1.23 on (synchronous timer channels) it returns
\* true as long as the program has not received from the channel, and
\* nothing from before the Stop is received afterwards.
StopResult(timer, synchronous) == synchronous \/ timer.state = "running"

\* the timer after Stop()
Stop(timer, synchronous) ==
    IF synchronous THEN [state |-> "stopped", C |-> 0]
    ELSE [timer EXCEPT !.state = IF @ = "running" THEN "stopped" ELSE @]

\* staleTimer.Reset(staleCoordinatesTimeout)
Reset(timer, synchronous) ==
    [state |-> "running", C |-> IF synchronous THEN 0 ELSE timer.C]

\* A receive from the channel whatever Stop returned.
MustDrainAlways(stopped) == TRUE

\* lines 346-348: if !staleTimer.Stop() { <-staleTimer.C }
MustDrain(stopped) == ~stopped

\* lines 318-327: the wait is called; the build is of either kind of runtime
StaleTimerInit ==
    /\ waiter \in [fn : {"WaitForSQLThreadUpToDate"}, synchronous : BOOLEAN,
                   SQLDelay : {0, 5}, exec : {ExecutedCoordinates},
                   last : {[LogFile |-> 0, LogPos |-> 0]},
                   generalTimer : {NewTimer}, staleTimer : {NewTimer},
                   drained : {FALSE}, pc : {"read"}, err : {NoError}]
    /\ ExecIdle
    /\ SemiIdle
    /\ OpsIdle
    /\ FanIdle

\* lines 329-343: the read of the round fails, or shows coordinates; the
\* wait returns, or goes on to the timers
ReadSQLThread ==
    /\ waiter.pc = "read"
    /\ \/ waiter' = WaitReturns(waiter, ReadFailedNil)
       \/ \E c \in ReadableCoordinates(waiter.exec) :
              LET read == [waiter EXCEPT !.exec = c, !.drained = FALSE]
              IN IF SQLThreadUpToDate([ReadBinlogCoordinates |-> PastCoordinates,
                                       ExecBinlogCoordinates |-> c])
                 THEN waiter' = WaitReturns(read, NoError)
                 ELSE IF waiter.SQLDelay # 0
                 THEN waiter' = WaitReturns(read,
                          <<"WaitForSQLThreadUpToDate: instance has SQL Delay">>)
                 ELSE IF c # waiter.last
                 THEN waiter' = [read EXCEPT !.pc = "stop"]
                 ELSE waiter' = [read EXCEPT !.last = c, !.pc = "select"]
    /\ UNCHANGED <<execVars, semiVars, opsVars, fanVars>>

\* line 346: staleTimer.Stop()
StopStaleTimer ==
    /\ waiter.pc = "stop"
    /\ waiter' = [waiter EXCEPT
           !.staleTimer = Stop(@, waiter.synchronous),
           !.pc = IF MustDrain(StopResult(waiter.staleTimer, waiter.synchronous))
                  THEN "drain" ELSE "reset"]
    /\ UNCHANGED <<execVars, semiVars, opsVars, fanVars>>

\* line 347: <-staleTimer.C blocks until the channel holds a value
DrainStaleTimer ==
    /\ waiter.pc = "drain"
    /\ waiter.staleTimer.C > 0
    /\ waiter' = [waiter EXCEPT !.staleTimer.C = 0, !.drained = TRUE, !.pc = "reset"]
    /\ UNCHANGED <<execVars, semiVars, opsVars, fanVars>>

\* lines 349-351
ResetStaleTimer ==
    /\ waiter.pc = "reset"
    /\ waiter' = [waiter EXCEPT !.staleTimer = Reset(@, waiter.synchronous),
                                !.last = waiter.exec, !.pc = "select"]
    /\ UNCHANGED <<execVars, semiVars, opsVars, fanVars>>

\* lines 353-362: select takes a channel that holds a value, or the default
SelectTimers ==
    /\ waiter.pc = "select"
    /\ IF waiter.generalTimer.C = 0 /\ waiter.staleTimer.C = 0
       THEN waiter' = [waiter EXCEPT !.pc = "sleep"]
       ELSE \/ /\ waiter.generalTimer.C > 0
               /\ waiter' = [WaitReturns(waiter, ErrWaitTimeout) EXCEPT !.generalTimer.C = 0]
            \/ /\ waiter.staleTimer.C > 0
               /\ waiter' = [WaitReturns(waiter, ErrWaitStaleCoordinates) EXCEPT
                                 !.staleTimer.C = 0]
    /\ UNCHANGED <<execVars, semiVars, opsVars, fanVars>>

\* line 361: time.Sleep(retryInterval)
SleepRetryInterval ==
    /\ waiter.pc = "sleep"
    /\ waiter' = [waiter EXCEPT !.pc = "read"]
    /\ UNCHANGED <<execVars, semiVars, opsVars, fanVars>>

\* The runtime: the period of a running timer ends, at any moment of the
\* wait; from then on the timer counts as expired.
TimerFires(name) ==
    /\ waiter.pc # "returned"
    /\ waiter[name].state = "running"
    /\ waiter' = [waiter EXCEPT ![name].state = "firing"]
    /\ UNCHANGED <<execVars, semiVars, opsVars, fanVars>>

\* The runtime: the expired timer sends the time on its channel, which holds
\* one value, without blocking.
TimerSends(name) ==
    /\ waiter[name].state = "firing"
    /\ waiter' = [waiter EXCEPT ![name] = [state |-> "expired", C |-> 1]]
    /\ UNCHANGED <<execVars, semiVars, opsVars, fanVars>>

\* The steps of the goroutine that waits.
WaiterNext ==
    \/ ReadSQLThread
    \/ StopStaleTimer
    \/ DrainStaleTimer
    \/ ResetStaleTimer
    \/ SelectTimers
    \/ SleepRetryInterval

StaleTimerNext ==
    \/ WaiterNext
    \/ \E name \in TimerNames : TimerFires(name)
    \/ \E name \in TimerNames : TimerSends(name)

SpecStaleTimer == StaleTimerInit /\ [][StaleTimerNext]_vars

\* The goroutine takes the steps it can take; a timer that has expired
\* sends.
SpecStaleTimerFair ==
    /\ SpecStaleTimer
    /\ WF_vars(WaiterNext)
    /\ WF_vars(\E name \in TimerNames : TimerSends(name))

\* C40: WaitForSQLThreadUpToDate does not block while it restarts the
\* staleness timer: whenever it waits on the timer's channel the timer has
\* expired and its value is in the channel or being sent; from the stop, the
\* receive and the reset it always gets to the select, with the timer
\* running again and its channel empty; whenever the timers expire.
C40_RestartNeverBlocks ==
    /\ [](waiter.pc = "drain" =>
             \/ waiter.staleTimer.C = 1
             \/ waiter.staleTimer.state = "firing")
    /\ [][(waiter.pc = "reset" /\ waiter'.pc # "reset") =>
             /\ waiter'.pc = "select"
             /\ waiter'.staleTimer = NewTimer
             /\ waiter'.last = waiter.exec]_vars
    /\ (waiter.pc \in {"stop", "drain", "reset"}) ~> (waiter.pc = "select")

\* C40 witness: the staleness timer expired during the sleep, the next read
\* showed other coordinates; the wait took the timer's value from the
\* channel, set the timer again and is at the select.
C40_Witness ==
    /\ waiter # <<>>
    /\ waiter.pc = "select"
    /\ waiter.drained
    /\ waiter.exec = TargetCoordinates
    /\ waiter.last = TargetCoordinates
    /\ waiter.staleTimer = NewTimer

====
